---- MODULE Spec2Model ----
(***************************************************************************)
(* Media pipeline of the portfolio backend: the local blob store, the      *)
(* media-file repository, the MediaUseCase lifecycle (UploadFile, GetFile, *)
(* DeleteFile), the upload session and the gateway's upload handler.       *)
(*                                                                         *)
(* Strings are sequences of one-character strings.  Byte strings are kept  *)
(* run-length encoded: a sequence of <<byte, count>> runs with count >= 1  *)
(* and no two adjacent runs of the same byte, so that a payload of         *)
(* 10 MiB + 1 bytes is a value the model checker can hold.                 *)
(***************************************************************************)
EXTENDS Integers, Sequences, FiniteSets, TLC

VARIABLES files, dirs, records, nextId, clock, nUploads, last, before, sess, gw, auth,
          conc

vars == <<files, dirs, records, nextId, clock, nUploads, last, before, sess, gw,
          auth, conc>>

(***************************************************************************)
(* Bounds of the model.                                                    *)
(***************************************************************************)
\* the clock runs over the seconds 0..MaxTime
MaxTime == 1
\* UploadFile is called at most MaxUploads times in a behaviour
MaxUploads == 2
\* and at most MaxWideUploads times in a behaviour of SpecWide
MaxWideUploads == 1
\* SpecSession: at most MaxSessions upload sessions, of at most MaxFrames frames
MaxSessions == 1
MaxFrames == 4
\* SpecGateway: at most MaxRequests upload requests, of at most MaxReads reads
MaxRequests == 1
MaxReads == 3
\* SpecAuth: Register is called while at most MaxRegisters ids of the users
\* table have been drawn
MaxRegisters == 2
\* SpecConc: at most MaxCalls calls in a behaviour
MaxCalls == 3

(***************************************************************************)
(* Byte strings (run-length encoded).                                      *)
(***************************************************************************)
Min(a, b) == IF a <= b THEN a ELSE b

RECURSIVE BLen(_)
BLen(d) == IF d = <<>> THEN 0 ELSE d[1][2] + BLen(Tail(d))

\* concatenation; the runs that meet are merged when they hold the same byte
BCat(d, e) ==
    IF d = <<>> THEN e
    ELSE IF e = <<>> THEN d
    ELSE IF d[Len(d)][1] = e[1][1]
         THEN SubSeq(d, 1, Len(d) - 1)
                \o << <<e[1][1], d[Len(d)][2] + e[1][2]>> >>
                \o Tail(e)
         ELSE d \o e

\* the first k bytes of d
RECURSIVE BTake(_, _)
BTake(d, k) ==
    IF k <= 0 \/ d = <<>> THEN <<>>
    ELSE IF d[1][2] <= k THEN BCat(<<d[1]>>, BTake(Tail(d), k - d[1][2]))
    ELSE << <<d[1][1], k>> >>

\* d without its first k bytes
RECURSIVE BDrop(_, _)
BDrop(d, k) ==
    IF k <= 0 \/ d = <<>> THEN d
    ELSE IF d[1][2] <= k THEN BDrop(Tail(d), k - d[1][2])
    ELSE << <<d[1][1], d[1][2] - k>> >> \o Tail(d)

(***************************************************************************)
(* path/filepath on slash-separated strings.                               *)
(***************************************************************************)
DotDot == <<".", ".">>

\* the elements of s between its separators (empty elements included)
RECURSIVE SplitFrom(_, _, _)
SplitFrom(s, i, cur) ==
    IF i > Len(s) THEN <<cur>>
    ELSE IF s[i] = "/" THEN <<cur>> \o SplitFrom(s, i + 1, <<>>)
    ELSE SplitFrom(s, i + 1, Append(cur, s[i]))

Split(s) == SplitFrom(s, 1, <<>>)

\* filepath.Clean of a relative path, as the sequence of its elements:
\* empty and "." elements go, ".." takes the element before it with it,
\* and a ".." with nothing before it stays
RECURSIVE CleanFrom(_, _, _)
CleanFrom(segs, i, acc) ==
    IF i > Len(segs) THEN acc
    ELSE IF segs[i] = <<>> \/ segs[i] = <<".">> THEN CleanFrom(segs, i + 1, acc)
    ELSE IF segs[i] = DotDot /\ acc # <<>> /\ acc[Len(acc)] # DotDot
         THEN CleanFrom(segs, i + 1, SubSeq(acc, 1, Len(acc) - 1))
    ELSE CleanFrom(segs, i + 1, Append(acc, segs[i]))

Clean(s) == CleanFrom(Split(s), 1, <<>>)

\* filepath.Join(dir, name): the two joined by a separator, then cleaned
Join(dir, name) == Clean(dir \o <<"/">> \o name)

RECURSIVE StripSlashes(_)
StripSlashes(s) ==
    IF s # <<>> /\ s[Len(s)] = "/" THEN StripSlashes(SubSeq(s, 1, Len(s) - 1)) ELSE s

\* filepath.Base: the last element of the path
Base(s) ==
    IF s = <<>> THEN <<".">>
    ELSE LET t == StripSlashes(s)
             segs == Split(t)
         IN IF t = <<>> THEN <<"/">> ELSE segs[Len(segs)]

\* filepath.Ext: the suffix of the last element that starts at its last dot
RECURSIVE ExtFrom(_, _)
ExtFrom(s, i) ==
    IF i < 1 \/ s[i] = "/" THEN <<>>
    ELSE IF s[i] = "." THEN SubSeq(s, i, Len(s))
    ELSE ExtFrom(s, i - 1)

Ext(s) == ExtFrom(s, Len(s))

(***************************************************************************)
(* Errors.  An error is the sequence of its messages, outermost first:     *)
(* Nil is no error, errors.New(m) is <<m>>, and fmt.Errorf("m: %w", e)     *)
(* puts m in front of e.                                                   *)
(***************************************************************************)
Nil == <<>>
Wrap(m, e) == <<m>> \o e

ENOENT == <<"no such file or directory">>
EACCES == <<"permission denied">>
EISDIR == <<"is a directory">>
ENOTEMPTY == <<"directory not empty">>
ENOSPC == <<"no space left on device">>

\* os.IsNotExist
IsNotExist(e) == e = ENOENT

(***************************************************************************)
(* The file system under the process's working directory.  A path is the   *)
(* sequence of its elements, <<>> being the working directory itself.      *)
(* fs = [files: path -> bytes, dirs: set of paths].                        *)
(***************************************************************************)
IsDir(fs, p) == p \in fs.dirs \/ \A i \in 1..Len(p) : p[i] = DotDot

Parent(p) == SubSeq(p, 1, Len(p) - 1)

IsUnder(p, d) == Len(p) > Len(d) /\ SubSeq(p, 1, Len(d)) = d

PutFile(f, p, d) == [q \in DOMAIN f \cup {p} |-> IF q = p THEN d ELSE f[q]]

DelFile(f, p) == [q \in DOMAIN f \ {p} |-> f[q]]

\* os.Create: open for writing, creating the file or truncating it.  It fails
\* when the medium refuses (fault), when the path is a directory and when the
\* directory that should hold the file does not exist.
OsCreate(fs, p, fault) ==
    IF fault THEN [err |-> EACCES, fs |-> fs]
    ELSE IF IsDir(fs, p) THEN [err |-> EISDIR, fs |-> fs]
    ELSE IF ~IsDir(fs, Parent(p)) THEN [err |-> ENOENT, fs |-> fs]
    ELSE [err |-> Nil, fs |-> [fs EXCEPT !.files = PutFile(@, p, <<>>)]]

\* file.Write: written < 0 is a complete write; otherwise the write fails
\* after `written` bytes have reached the file
OsWrite(fs, p, data, written) ==
    IF written < 0 \/ written >= BLen(data)
    THEN [err |-> Nil, fs |-> [fs EXCEPT !.files = PutFile(@, p, data)]]
    ELSE [err |-> ENOSPC, fs |-> [fs EXCEPT !.files = PutFile(@, p, BTake(data, written))]]

\* os.Remove: removes a file or an empty directory
OsRemove(fs, p, fault) ==
    IF fault THEN [err |-> EACCES, fs |-> fs]
    ELSE IF p \in DOMAIN fs.files
         THEN [err |-> Nil, fs |-> [fs EXCEPT !.files = DelFile(@, p)]]
    ELSE IF p \in fs.dirs
         THEN IF \E q \in DOMAIN fs.files \cup fs.dirs : IsUnder(q, p)
              THEN [err |-> ENOTEMPTY, fs |-> fs]
              ELSE [err |-> Nil, fs |-> [fs EXCEPT !.dirs = @ \ {p}]]
    ELSE IF IsDir(fs, p) THEN [err |-> ENOTEMPTY, fs |-> fs]
    ELSE [err |-> ENOENT, fs |-> fs]

\* os.Open
OsOpen(fs, p, fault) ==
    IF fault THEN EACCES
    ELSE IF p \in DOMAIN fs.files \/ IsDir(fs, p) THEN Nil
    ELSE ENOENT

\* io.ReadAll of an open file
ReadAll(fs, p) ==
    IF p \in DOMAIN fs.files THEN [data |-> fs.files[p], err |-> Nil]
    ELSE [data |-> <<>>, err |-> EISDIR]

(***************************************************************************)
(* LocalStorage (config: STORAGE_PATH, STORAGE_URL).                       *)
(***************************************************************************)
basePath == <<".", "/", "u">>
baseURL == <<"h", ":", "/", "/", "l", "/", "f">>

\* NewLocalStorage: os.MkdirAll(basePath)
NewLocalStorage == [files |-> <<>>, dirs |-> {Clean(basePath)}]

\* LocalStorage.Save; env.create: os.Create is refused, env.written: see OsWrite
Save(fs, fileName, data, env) ==
    LET filePath == Join(basePath, fileName)
        c == OsCreate(fs, filePath, env.create)
        w == OsWrite(c.fs, filePath, data, env.written)
    IN IF c.err # Nil
       THEN [fs |-> c.fs, url |-> <<>>, err |-> Wrap("failed to create file", c.err)]
       ELSE IF w.err # Nil
       THEN [fs |-> w.fs, url |-> <<>>, err |-> Wrap("failed to write file", w.err)]
       ELSE [fs |-> w.fs, url |-> baseURL \o <<"/">> \o fileName, err |-> Nil]

\* a plausible slip: a missing file is reported like any other failure
Delete_NotExistFails(fs, fileURL, fault) ==
    LET fileName == Base(fileURL)
        filePath == Join(basePath, fileName)
        r == OsRemove(fs, filePath, fault)
    IN IF r.err # Nil
       THEN [fs |-> r.fs, err |-> Wrap("failed to delete file", r.err)]
       ELSE [fs |-> r.fs, err |-> Nil]

\* LocalStorage.Delete; fault: os.Remove is refused
Delete(fs, fileURL, fault) ==
    LET fileName == Base(fileURL)
        filePath == Join(basePath, fileName)
        r == OsRemove(fs, filePath, fault)
    IN IF r.err # Nil
       THEN IF IsNotExist(r.err)
            THEN [fs |-> r.fs, err |-> Nil]
            ELSE [fs |-> r.fs, err |-> Wrap("failed to delete file", r.err)]
       ELSE [fs |-> r.fs, err |-> Nil]

\* LocalStorage.Get; fault: os.Open is refused
Get(fs, fileURL, fault) ==
    LET fileName == Base(fileURL)
        filePath == Join(basePath, fileName)
        o == OsOpen(fs, filePath, fault)
        r == ReadAll(fs, filePath)
    IN IF o # Nil THEN [data |-> <<>>, err |-> Wrap("failed to open file", o)]
       ELSE IF r.err # Nil THEN [data |-> <<>>, err |-> Wrap("failed to read file", r.err)]
       ELSE [data |-> r.data, err |-> Nil]

(***************************************************************************)
(* PostgresMediaFileRepository over the media_files table.                 *)
(* db = [rows: id -> row, nextId: the next value of the id sequence].      *)
(***************************************************************************)
ErrNoRows == <<"sql: no rows in result set">>
ErrDB == <<"pq: the database refused">>

NewRepository == [rows |-> <<>>, nextId |-> 1]

\* a slip: the insert takes the place of the row that holds the same locator
Create_Replace(db, file, fault) ==
    IF fault THEN [db |-> db, file |-> file, err |-> ErrDB]
    ELSE LET row == [file_name |-> file.FileName, file_url |-> file.FileURL,
                     uploaded_by |-> file.UploadedBy, uploaded_at |-> file.UploadedAt,
                     file_type |-> file.FileType]
             same == { i \in DOMAIN db.rows : db.rows[i].file_url = file.FileURL }
             id == IF same = {} THEN db.nextId ELSE CHOOSE i \in same : TRUE
         IN [db |-> [rows |-> [i \in DOMAIN db.rows \cup {id} |->
                                  IF i = id THEN row ELSE db.rows[i]],
                     nextId |-> IF same = {} THEN db.nextId + 1 ELSE db.nextId],
             file |-> [file EXCEPT !.ID = id],
             err |-> Nil]

\* INSERT ... RETURNING id, scanned into file.ID; the row has no file_size
Create(db, file, fault) ==
    IF fault THEN [db |-> db, file |-> file, err |-> ErrDB]
    ELSE LET row == [file_name |-> file.FileName, file_url |-> file.FileURL,
                     uploaded_by |-> file.UploadedBy, uploaded_at |-> file.UploadedAt,
                     file_type |-> file.FileType]
         IN [db |-> [rows |-> [i \in DOMAIN db.rows \cup {db.nextId} |->
                                  IF i = db.nextId THEN row ELSE db.rows[i]],
                     nextId |-> db.nextId + 1],
             file |-> [file EXCEPT !.ID = db.nextId],
             err |-> Nil]

\* a slip: the error of Scan is dropped, and a missing row is a zero MediaFile
GetByID_NoRowsOk(db, id, fault) ==
    IF fault \/ id \notin DOMAIN db.rows
    THEN [file |-> << [ID |-> 0, FileName |-> <<>>, FileURL |-> <<>>, UploadedBy |-> 0,
                       UploadedAt |-> 0, FileType |-> "", FileSize |-> 0] >>,
          err |-> Nil]
    ELSE [file |-> << [ID |-> id, FileName |-> db.rows[id].file_name,
                       FileURL |-> db.rows[id].file_url,
                       UploadedBy |-> db.rows[id].uploaded_by,
                       UploadedAt |-> db.rows[id].uploaded_at,
                       FileType |-> db.rows[id].file_type, FileSize |-> 0] >>,
          err |-> Nil]

\* SELECT ... WHERE id = $1, scanned into a zero MediaFile
GetByID(db, id, fault) ==
    IF fault THEN [file |-> <<>>, err |-> ErrDB]
    ELSE IF id \notin DOMAIN db.rows THEN [file |-> <<>>, err |-> ErrNoRows]
    ELSE [file |-> << [ID |-> id, FileName |-> db.rows[id].file_name,
                       FileURL |-> db.rows[id].file_url,
                       UploadedBy |-> db.rows[id].uploaded_by,
                       UploadedAt |-> db.rows[id].uploaded_at,
                       FileType |-> db.rows[id].file_type, FileSize |-> 0] >>,
          err |-> Nil]

\* a slip: the statement matches no row
RepoDelete_NoRow(db, id, fault) ==
    IF fault THEN [db |-> db, err |-> ErrDB]
    ELSE [db |-> db, err |-> Nil]

\* DELETE FROM media_files WHERE id = $1
RepoDelete(db, id, fault) ==
    IF fault THEN [db |-> db, err |-> ErrDB]
    ELSE [db |-> [db EXCEPT !.rows = [i \in DOMAIN db.rows \ {id} |-> db.rows[i]]],
          err |-> Nil]

\* a row as the MediaFile the SELECTs scan it into
Scanned(db, id) ==
    [ID |-> id, FileName |-> db.rows[id].file_name, FileURL |-> db.rows[id].file_url,
     UploadedBy |-> db.rows[id].uploaded_by, UploadedAt |-> db.rows[id].uploaded_at,
     FileType |-> db.rows[id].file_type, FileSize |-> 0]

\* ORDER BY uploaded_at DESC; rows of the same second are taken by id
RECURSIVE Ordered(_, _)
Ordered(db, ids) ==
    IF ids = {} THEN <<>>
    ELSE LET first == CHOOSE i \in ids :
                         \A j \in ids :
                            \/ db.rows[i].uploaded_at > db.rows[j].uploaded_at
                            \/ db.rows[i].uploaded_at = db.rows[j].uploaded_at /\ i <= j
         IN <<Scanned(db, first)>> \o Ordered(db, ids \ {first})

\* LIMIT limit OFFSET offset over the ordered rows
Page(rows, limit, offset) ==
    IF offset >= Len(rows) THEN <<>>
    ELSE SubSeq(rows, offset + 1, Min(Len(rows), offset + limit))

\* SELECT COUNT(*) and SELECT ... LIMIT OFFSET, by file type when one is given
List(db, page, limit, fileType, fault) ==
    LET offset == (page - 1) * limit
        ids == { i \in DOMAIN db.rows : fileType = "" \/ db.rows[i].file_type = fileType }
    IN IF fault THEN [files |-> <<>>, total |-> 0, err |-> ErrDB]
       ELSE [files |-> Page(Ordered(db, ids), limit, offset), total |-> Cardinality(ids),
             err |-> Nil]

\* the same of the rows a user uploaded
GetByUserID(db, userID, page, limit, fault) ==
    LET offset == (page - 1) * limit
        ids == { i \in DOMAIN db.rows : db.rows[i].uploaded_by = userID }
    IN IF fault THEN [files |-> <<>>, total |-> 0, err |-> ErrDB]
       ELSE [files |-> Page(Ordered(db, ids), limit, offset), total |-> Cardinality(ids),
             err |-> Nil]

(***************************************************************************)
(* entity.MediaFile                                                        *)
(***************************************************************************)
NewMediaFile(fileName, fileURL, fileType, uploadedBy, fileSize, now) ==
    [ID |-> 0, FileName |-> fileName, FileURL |-> fileURL, UploadedBy |-> uploadedBy,
     UploadedAt |-> now, FileType |-> fileType, FileSize |-> fileSize]

ValidFileTypes == <<"image", "document", "resume">>

\* a plausible slip: the last type of the list is never compared
IsValidFileType_OffByOne(fileType) ==
    \E i \in 1..(Len(ValidFileTypes) - 1) : ValidFileTypes[i] = fileType

IsValidFileType(fileType) == \E i \in 1..Len(ValidFileTypes) : ValidFileTypes[i] = fileType

(***************************************************************************)
(* MediaUseCase.  w = [fs, db] is what the use case's storage and          *)
(* repository hold; a result carries the new w, the returned file (<<>> is *)
(* nil, <<f>> a file), the returned error and the calls made on storage    *)
(* and repository, in order, each with its argument and what it returned.  *)
(***************************************************************************)
ErrFileNotFound == <<"file not found">>
ErrInvalidFileType == <<"invalid file type">>
ErrUploadFailed == <<"upload failed">>

Digits == <<"0", "1", "2", "3", "4", "5", "6", "7", "8", "9">>

\* time.Now().Format("20060102150405"): one fixed-width block of digits a second
Stamp(now) == <<Digits[now + 1]>>

Call(fn, loc, id, out, err) == [fn |-> fn, loc |-> loc, id |-> id, out |-> out, err |-> err]

\* a plausible slip: the storage error is passed on and the insert still runs
SaveFailed_Continue(w, uniqueName, s, file, env) ==
    LET c == Create(w.db, file, env.dbCreate)
    IN [w |-> [fs |-> s.fs, db |-> c.db], file |-> <<c.file>>, err |-> s.err,
        calls |-> <<Call("Save", uniqueName, 0, s.url, s.err),
                    Call("Create", file.FileURL, c.file.ID, <<>>, c.err)>>]

\* UploadFile when Save has returned an error
SaveFailed(w, uniqueName, s, file, env) ==
    [w |-> [w EXCEPT !.fs = s.fs], file |-> <<>>, err |-> ErrUploadFailed,
     calls |-> <<Call("Save", uniqueName, 0, s.url, s.err)>>]

\* a plausible slip: the blob is left where it is
CreateFailed_NoCleanup(w, uniqueName, s, file, c, env) ==
    [w |-> [fs |-> s.fs, db |-> c.db], file |-> <<>>, err |-> c.err,
     calls |-> <<Call("Save", uniqueName, 0, s.url, s.err),
                 Call("Create", file.FileURL, 0, <<>>, c.err)>>]

\* a slip: the insert is tried a second time
CreateFailed_Retry(w, uniqueName, s, file, c, env) ==
    LET c2 == Create(c.db, file, FALSE)
    IN [w |-> [fs |-> s.fs, db |-> c2.db], file |-> <<c2.file>>, err |-> Nil,
        calls |-> <<Call("Save", uniqueName, 0, s.url, s.err),
                    Call("Create", file.FileURL, 0, <<>>, c.err),
                    Call("Create", file.FileURL, c2.file.ID, <<>>, c2.err)>>]

\* UploadFile when Create has returned an error: cleanup of the uploaded file
CreateFailed(w, uniqueName, s, file, c, env) ==
    LET d == Delete(s.fs, s.url, env.remove)
    IN [w |-> [fs |-> d.fs, db |-> c.db], file |-> <<>>, err |-> c.err,
        calls |-> <<Call("Save", uniqueName, 0, s.url, s.err),
                    Call("Create", file.FileURL, 0, <<>>, c.err),
                    Call("Delete", s.url, 0, <<>>, d.err)>>]

UploadFile(w, now, fileName, fileType, uploadedBy, data, env) ==
    IF ~IsValidFileType(fileType)
    THEN [w |-> w, file |-> <<>>, err |-> ErrInvalidFileType, calls |-> <<>>]
    ELSE
    LET ext == Ext(fileName)
        uniqueName == Stamp(now) \o <<"_">> \o fileName
        s == Save(w.fs, uniqueName, data, env)
        new == NewMediaFile(fileName, s.url, fileType, uploadedBy, BLen(data), now)
        file == IF ext # <<>> THEN [new EXCEPT !.FileName = fileName] ELSE new
        c == Create(w.db, file, env.dbCreate)
    IN IF s.err # Nil THEN SaveFailed(w, uniqueName, s, file, env)
       ELSE IF c.err # Nil THEN CreateFailed(w, uniqueName, s, file, c, env)
       ELSE [w |-> [fs |-> s.fs, db |-> c.db], file |-> <<c.file>>, err |-> Nil,
             calls |-> <<Call("Save", uniqueName, 0, s.url, s.err),
                         Call("Create", file.FileURL, c.file.ID, <<>>, c.err)>>]

GetFile(w, id, env) ==
    LET g == GetByID(w.db, id, env.dbGet)
    IN IF g.err # Nil
       THEN [w |-> w, file |-> <<>>, err |-> ErrFileNotFound,
             calls |-> <<Call("GetByID", <<>>, id, <<>>, g.err)>>]
       ELSE [w |-> w, file |-> g.file, err |-> Nil,
             calls |-> <<Call("GetByID", <<>>, id, <<>>, g.err)>>]

\* a plausible slip: the storage error is dropped and the record removed
DeleteFile_IgnoreStorage(w, id, env) ==
    LET g == GetByID(w.db, id, env.dbGet)
        d == Delete(w.fs, g.file[1].FileURL, env.remove)
        r == RepoDelete(w.db, id, env.dbDelete)
    IN IF g.err # Nil
       THEN [w |-> w, file |-> <<>>, err |-> ErrFileNotFound,
             calls |-> <<Call("GetByID", <<>>, id, <<>>, g.err)>>]
       ELSE [w |-> [fs |-> d.fs, db |-> r.db], file |-> <<>>, err |-> r.err,
             calls |-> <<Call("GetByID", <<>>, id, <<>>, g.err),
                         Call("Delete", g.file[1].FileURL, 0, <<>>, d.err),
                         Call("RepoDelete", <<>>, id, <<>>, r.err)>>]

DeleteFile(w, id, env) ==
    LET g == GetByID(w.db, id, env.dbGet)
        d == Delete(w.fs, g.file[1].FileURL, env.remove)
        r == RepoDelete(w.db, id, env.dbDelete)
    IN IF g.err # Nil
       THEN [w |-> w, file |-> <<>>, err |-> ErrFileNotFound,
             calls |-> <<Call("GetByID", <<>>, id, <<>>, g.err)>>]
       ELSE IF d.err # Nil
       THEN [w |-> [w EXCEPT !.fs = d.fs], file |-> <<>>, err |-> d.err,
             calls |-> <<Call("GetByID", <<>>, id, <<>>, g.err),
                         Call("Delete", g.file[1].FileURL, 0, <<>>, d.err)>>]
       ELSE [w |-> [fs |-> d.fs, db |-> r.db], file |-> <<>>, err |-> r.err,
             calls |-> <<Call("GetByID", <<>>, id, <<>>, g.err),
                         Call("Delete", g.file[1].FileURL, 0, <<>>, d.err),
                         Call("RepoDelete", <<>>, id, <<>>, r.err)>>]

\* a call of the repository that takes a page and a limit
PageCall(fn, page, limit, err) == [fn |-> fn, page |-> page, limit |-> limit, err |-> err]

\* a slip: a limit of zero is let through
ListFiles_ZeroLimit(w, page, limit, fileType, env) ==
    LET p == IF page < 1 THEN 1 ELSE page
        l == IF limit < 0 \/ limit > 100 THEN 10 ELSE limit
        r == List(w.db, p, l, fileType, env.dbGet)
    IN [w |-> w, files |-> r.files, total |-> r.total, err |-> r.err,
        calls |-> <<PageCall("List", p, l, r.err)>>]

ListFiles(w, page, limit, fileType, env) ==
    LET p == IF page < 1 THEN 1 ELSE page
        l == IF limit < 1 \/ limit > 100 THEN 10 ELSE limit
        r == List(w.db, p, l, fileType, env.dbGet)
    IN [w |-> w, files |-> r.files, total |-> r.total, err |-> r.err,
        calls |-> <<PageCall("List", p, l, r.err)>>]

GetFilesByUser(w, userID, page, limit, env) ==
    LET p == IF page < 1 THEN 1 ELSE page
        l == IF limit < 1 \/ limit > 100 THEN 10 ELSE limit
        r == GetByUserID(w.db, userID, p, l, env.dbGet)
    IN [w |-> w, files |-> r.files, total |-> r.total, err |-> r.err,
        calls |-> <<PageCall("GetByUserID", p, l, r.err)>>]

(***************************************************************************)
(* The receiving side of an upload session (the media service's stream     *)
(* handler), after the specification's section 4.2: exactly one metadata   *)
(* frame first, then chunk frames up to the size ceiling, then the end of  *)
(* the stream, at which the lifecycle runs on the reassembled bytes.       *)
(* ss = [state, gotMeta, meta, buf, err, handed, resp] and the history of  *)
(* the session: log, the frames received, opened, what storage and table   *)
(* held when it opened, and calls, the calls the lifecycle made.           *)
(***************************************************************************)
\* 10 << 20
MaxFileSize == 10 * 1048576
\* 64 * 1024
ChunkSize == 64 * 1024

ErrProtocol == <<"protocol violation">>
ErrTooLarge == <<"payload too large">>
ErrTransport == <<"transport is closing">>

NoWorld == [fs |-> [files |-> <<>>, dirs |-> {}], db |-> [rows |-> <<>>, nextId |-> 0]]

NoMeta == [file_name |-> <<>>, file_type |-> "", uploaded_by |-> 0]

NoSession == [state |-> "none", gotMeta |-> FALSE, meta |-> NoMeta, buf |-> <<>>,
              err |-> Nil, handed |-> <<>>, resp |-> <<>>, log |-> <<>>,
              opened |-> NoWorld, n |-> 0, calls |-> <<>>]

NewSession(ss, w) == [NoSession EXCEPT !.state = "open", !.opened = w, !.n = ss.n + 1]

FailSession(ss, e) == [ss EXCEPT !.state = "failed", !.err = e]

\* the history of the session: one more frame received
Logged(ss, kind, size) == [ss EXCEPT !.log = Append(@, [kind |-> kind, size |-> size])]

\* a slip: a second metadata frame replaces the first
RecvMetadata_Replace(ss, m) ==
    IF ss.state # "open" THEN ss
    ELSE [ss EXCEPT !.gotMeta = TRUE, !.meta = m]

RecvMetadata(ss, m) ==
    IF ss.state # "open" THEN ss
    ELSE IF ss.gotMeta THEN FailSession(ss, ErrProtocol)
    ELSE [ss EXCEPT !.gotMeta = TRUE, !.meta = m]

\* a slip: the bytes are buffered whatever they add up to
RecvChunk_Unbounded(ss, chunk) ==
    IF ss.state # "open" THEN ss
    ELSE IF ~ss.gotMeta THEN FailSession(ss, ErrProtocol)
    ELSE [ss EXCEPT !.buf = BCat(@, chunk)]

RecvChunk(ss, chunk) ==
    IF ss.state # "open" THEN ss
    ELSE IF ~ss.gotMeta THEN FailSession(ss, ErrProtocol)
    ELSE IF BLen(ss.buf) + BLen(chunk) > MaxFileSize THEN FailSession(ss, ErrTooLarge)
    ELSE [ss EXCEPT !.buf = BCat(@, chunk)]

\* end of stream: the lifecycle runs on the buffer and the first frame's fields
RecvEOF(ss, w, now, env) ==
    IF ss.state # "open" THEN [ss |-> ss, w |-> w]
    ELSE IF ~ss.gotMeta THEN [ss |-> FailSession(ss, ErrProtocol), w |-> w]
    ELSE LET r == UploadFile(w, now, ss.meta.file_name, ss.meta.file_type,
                             ss.meta.uploaded_by, ss.buf, env)
         IN [ss |-> [ss EXCEPT !.state = "done", !.err = r.err,
                               !.handed = << [meta |-> ss.meta, data |-> ss.buf] >>,
                               !.resp = << [file |-> r.file, err |-> r.err] >>,
                               !.calls = r.calls],
             w |-> r.w]

\* the stream breaks, or its context is cancelled
RecvAbort(ss) ==
    IF ss.state # "open" THEN ss ELSE FailSession(ss, ErrTransport)

(***************************************************************************)
(* The gateway's upload handler, MediaHandler.UploadFile, a step at a      *)
(* time.  g = [pc, content, fileName, fileType, userID, rest, chunk, sent, *)
(* closed, reads, responses, n, began]: rest is what file.Read has not     *)
(* returned yet, chunk is buffer[:n], sent the chunk frames sent so far,   *)
(* one after the other, responses what c.JSON has written, and began what  *)
(* storage, table and session were when the request arrived and what its   *)
(* file_type form field held; bodyLen is the length of the request's body. *)
(***************************************************************************)
NoRequest == [pc |-> "idle", content |-> <<>>, fileName |-> <<>>, fileType |-> "",
              userID |-> 0, rest |-> <<>>, chunk |-> <<>>, sent |-> <<>>,
              closed |-> FALSE, reads |-> 0, responses |-> <<>>, n |-> 0,
              began |-> [w |-> NoWorld, sess |-> NoSession, form |-> ""],
              bodyLen |-> 0]

\* c.JSON(status, body)
JSON(g, status, body) ==
    [g EXCEPT !.responses = Append(@, [status |-> status, body |-> body])]

\* c.JSON(status, body); return
Respond(g, status, body) == [JSON(g, status, body) EXCEPT !.pc = "returned"]

\* the length of the request's body: the file part, if any, and the rest
BodyLen(req) == (IF req.file = <<>> THEN 0 ELSE BLen(req.file[1])) + req.extra

\* a slip: the body is read without the bounded reader
FormFile_Unbounded(req) == req.file # <<>>

\* c.Request.FormFile("file") behind http.MaxBytesReader: an error when the
\* body is longer than MaxFileSize or holds no part of that name
FormFile(req) ==
    IF BodyLen(req) > MaxFileSize THEN FALSE
    ELSE req.file # <<>>

\* a slip: the form field goes into the frame as it is
GwBegin_NoDefault(g, req) ==
    LET g0 == [NoRequest EXCEPT !.n = g.n + 1, !.bodyLen = BodyLen(req)]
    IN IF ~FormFile(req) THEN Respond(g0, 400, "File is required")
       ELSE [g0 EXCEPT !.pc = "open",
                       !.content = req.file[1],
                       !.rest = req.file[1],
                       !.fileName = req.fileName,
                       !.fileType = req.file_type,
                       !.userID = IF req.user_id = <<>> THEN 0 ELSE req.user_id[1]]

\* the handler up to the opening of the stream
GwBegin(g, req) ==
    LET g0 == [NoRequest EXCEPT !.n = g.n + 1, !.bodyLen = BodyLen(req)]
    IN IF ~FormFile(req) THEN Respond(g0, 400, "File is required")
       ELSE [g0 EXCEPT !.pc = "open",
                       !.content = req.file[1],
                       !.rest = req.file[1],
                       !.fileName = req.fileName,
                       !.fileType = IF req.file_type = "" THEN "document" ELSE req.file_type,
                       !.userID = IF req.user_id = <<>> THEN 0 ELSE req.user_id[1]]

\* h.mediaClient.UploadFile(ctx)
GwOpen(g, ok) ==
    IF ok THEN [g EXCEPT !.pc = "metadata"]
    ELSE Respond(g, 500, "Failed to start upload")

\* the metadata frame of the request
GwMetadata(g) == [file_name |-> g.fileName, file_type |-> g.fileType, uploaded_by |-> g.userID]

\* stream.Send of the metadata frame
GwSendMetadata(g, ok) ==
    IF ok THEN [g EXCEPT !.pc = "read"]
    ELSE Respond(g, 500, "Failed to send metadata")

\* what file.Read(buffer) may return, as io.Reader allows it: at the end
\* (0, EOF); before it n bytes, 1 <= n <= len(buffer), with no error, the last
\* bytes with no error or together with EOF, or an error
ReadOutcomes(rest) ==
    LET m == Min(ChunkSize, BLen(rest))
    IN IF m = 0 THEN { [n |-> 0, err |-> "EOF"] }
       ELSE { [n |-> k, err |-> "nil"] : k \in {1, m - 1, m} \cap (1..m) }
            \cup (IF m = BLen(rest) THEN { [n |-> m, err |-> "EOF"] } ELSE {})
            \cup { [n |-> 0, err |-> "error"] }

\* a slip: a failed read ends the loop as the end of the file does
GwRead_CloseOnError(g, out) ==
    IF out.err # "nil"
    THEN [g EXCEPT !.pc = "close", !.rest = BDrop(@, out.n), !.reads = @ + 1]
    ELSE [g EXCEPT !.pc = "send", !.chunk = BTake(g.rest, out.n),
                   !.rest = BDrop(@, out.n), !.reads = @ + 1]

\* n, err := file.Read(buffer) and the two tests that follow it
GwRead(g, out) ==
    IF out.err = "EOF"
    THEN [g EXCEPT !.pc = "close", !.rest = BDrop(@, out.n), !.reads = @ + 1]
    ELSE IF out.err # "nil" THEN Respond(g, 500, "Failed to read file")
    ELSE [g EXCEPT !.pc = "send", !.chunk = BTake(g.rest, out.n),
                   !.rest = BDrop(@, out.n), !.reads = @ + 1]

\* a slip: the failure is reported and the loop goes on
GwSendChunk_NoReturn(g, ok) ==
    IF ok THEN [g EXCEPT !.pc = "read", !.sent = BCat(@, g.chunk), !.chunk = <<>>]
    ELSE [JSON(g, 500, "Failed to send chunk") EXCEPT !.pc = "read", !.chunk = <<>>]

\* stream.Send of the chunk frame buffer[:n]
GwSendChunk(g, ok) ==
    IF ok THEN [g EXCEPT !.pc = "read", !.sent = BCat(@, g.chunk), !.chunk = <<>>]
    ELSE Respond(g, 500, "Failed to send chunk")

\* stream.CloseAndRecv(), its first half: the end of the stream is signalled
GwCloseSend(g) == [g EXCEPT !.pc = "recv", !.closed = TRUE]

\* a slip: the error of CloseAndRecv is not looked at
GwRecv_IgnoreErr(g, err) == Respond(g, 201, "file")

\* stream.CloseAndRecv(), its second half: the response or the error arrives
GwRecv(g, err) ==
    IF err # Nil THEN Respond(g, 500, "Upload failed")
    ELSE Respond(g, 201, "file")

\* the deferred cancel() of the handler's context ends a session still open
Cancelled(g, ss) == IF g.pc = "returned" THEN RecvAbort(ss) ELSE ss

(***************************************************************************)
(* GET and DELETE /api/media/:id: the gateway's handlers and, behind them,  *)
(* the service's unary calls, which hand the request to the use case and   *)
(* its result back.  param is the :id of the path as ParseInt reads it:    *)
(* <<>> when it is no number, <<id>> otherwise; lost: the call itself      *)
(* fails (its five seconds pass, the transport breaks).                    *)
(***************************************************************************)
SvcGetFile(w, id, env) == GetFile(w, id, env)

SvcDeleteFile(w, id, env) == DeleteFile(w, id, env)

Answer(w, status, file, err, calls) ==
    [w |-> w, status |-> status, file |-> file, err |-> err, calls |-> calls]

\* MediaHandler.GetFile
GwGetFile(w, param, env, lost) ==
    IF param = <<>> THEN Answer(w, 400, <<>>, <<"Invalid ID">>, <<>>)
    ELSE LET r == SvcGetFile(w, param[1], env)
             err == IF lost THEN ErrTransport ELSE r.err
         IN IF err # Nil THEN Answer(r.w, 500, <<>>, err, r.calls)
            ELSE Answer(r.w, 200, r.file, Nil, r.calls)

\* MediaHandler.DeleteFile
GwDeleteFile(w, param, env, lost) ==
    IF param = <<>> THEN Answer(w, 400, <<>>, <<"Invalid ID">>, <<>>)
    ELSE LET r == SvcDeleteFile(w, param[1], env)
             err == IF lost THEN ErrTransport ELSE r.err
         IN IF err # Nil THEN Answer(r.w, 500, <<>>, err, r.calls)
            ELSE Answer(r.w, 200, <<>>, Nil, r.calls)

(***************************************************************************)
(* The auth service: PostgresUserRepository over the users table, bcrypt,  *)
(* the token service and AuthUseCase.  a = [db, pw]: db = [rows: id -> row,*)
(* nextId] is the table, whose username and email columns are UNIQUE; pw,  *)
(* kept for the properties only, is the password each user registered     *)
(* with.  Passwords are byte strings.                                      *)
(***************************************************************************)
\* the longest password bcrypt operates on (golang.org/x/crypto v0.17.0)
BcryptMaxLen == 72

ErrUserExists == <<"user already exists">>
ErrInvalidCredentials == <<"invalid credentials">>
ErrPasswordTooLong == <<"bcrypt: password length exceeds 72 bytes">>
ErrUnique == <<"pq: duplicate key value violates unique constraint">>

NoUsers == [db |-> [rows |-> <<>>, nextId |-> 1], pw |-> <<>>]

NoAuthFault == [getEmail |-> FALSE, getUsername |-> FALSE, create |-> FALSE]

\* bcrypt.GenerateFromPassword: no hash of a password longer than 72 bytes
GenerateFromPassword(password, salt) ==
    IF BLen(password) > BcryptMaxLen THEN [hash |-> <<>>, err |-> ErrPasswordTooLong]
    ELSE [hash |-> << [salt |-> salt, key |-> password] >>, err |-> Nil]

\* bcrypt.CompareHashAndPassword: the hash of the given password under the
\* salt of the stored hash is the stored hash; of a longer password, bcrypt
\* hashes the first 72 bytes
CompareHashAndPassword(hash, password) == hash.key = BTake(password, BcryptMaxLen)

\* entity.NewUser
NewUser(username, email, passwordHash, role, now) ==
    [ID |-> 0, Username |-> username, Email |-> email, PasswordHash |-> passwordHash,
     Role |-> IF role = "" THEN "user" ELSE role, CreatedAt |-> now, UpdatedAt |-> now]

\* a row as the User the SELECTs scan it into
ScannedUser(db, id) ==
    [ID |-> id, Username |-> db.rows[id].username, Email |-> db.rows[id].email,
     PasswordHash |-> db.rows[id].password_hash, Role |-> db.rows[id].role,
     CreatedAt |-> db.rows[id].created_at, UpdatedAt |-> db.rows[id].updated_at]

\* a slip: the table without its UNIQUE constraints
CreateUser_NotUnique(db, user, fault) ==
    IF fault THEN [db |-> db, user |-> user, err |-> ErrDB]
    ELSE [db |-> [rows |-> [i \in DOMAIN db.rows \cup {db.nextId} |->
                             IF i = db.nextId
                             THEN [username |-> user.Username, email |-> user.Email,
                                   password_hash |-> user.PasswordHash, role |-> user.Role,
                                   created_at |-> user.CreatedAt,
                                   updated_at |-> user.UpdatedAt]
                             ELSE db.rows[i]],
                 nextId |-> db.nextId + 1],
          user |-> [user EXCEPT !.ID = db.nextId], err |-> Nil]

\* PostgresUserRepository.Create: INSERT ... RETURNING id; the id is drawn
\* from the sequence before the constraints are looked at
CreateUser(db, user, fault) ==
    IF fault THEN [db |-> db, user |-> user, err |-> ErrDB]
    ELSE IF \E i \in DOMAIN db.rows :
               db.rows[i].username = user.Username \/ db.rows[i].email = user.Email
    THEN [db |-> [db EXCEPT !.nextId = @ + 1], user |-> user, err |-> ErrUnique]
    ELSE [db |-> [rows |-> [i \in DOMAIN db.rows \cup {db.nextId} |->
                             IF i = db.nextId
                             THEN [username |-> user.Username, email |-> user.Email,
                                   password_hash |-> user.PasswordHash, role |-> user.Role,
                                   created_at |-> user.CreatedAt,
                                   updated_at |-> user.UpdatedAt]
                             ELSE db.rows[i]],
                 nextId |-> db.nextId + 1],
          user |-> [user EXCEPT !.ID = db.nextId], err |-> Nil]

\* PostgresUserRepository.GetByEmail
GetByEmail(db, email, fault) ==
    LET ids == { i \in DOMAIN db.rows : db.rows[i].email = email }
    IN IF fault THEN [user |-> <<>>, err |-> ErrDB]
       ELSE IF ids = {} THEN [user |-> <<>>, err |-> ErrNoRows]
       ELSE [user |-> <<ScannedUser(db, CHOOSE i \in ids : TRUE)>>, err |-> Nil]

\* PostgresUserRepository.GetByUsername
GetByUsername(db, username, fault) ==
    LET ids == { i \in DOMAIN db.rows : db.rows[i].username = username }
    IN IF fault THEN [user |-> <<>>, err |-> ErrDB]
       ELSE IF ids = {} THEN [user |-> <<>>, err |-> ErrNoRows]
       ELSE [user |-> <<ScannedUser(db, CHOOSE i \in ids : TRUE)>>, err |-> Nil]

\* TokenService.GenerateToken: the signed claims, valid for a day
GenerateToken(userID, username, email, role, now) ==
    << [UserID |-> userID, Username |-> username, Email |-> email, Role |-> role,
        IssuedAt |-> now] >>

AuthResult(db, user, token, err, calls) ==
    [db |-> db, user |-> user, token |-> token, err |-> err, calls |-> calls]

\* AuthUseCase.Register
Register(db, now, username, email, password, role, salt, env) ==
    LET e == GetByEmail(db, email, env.getEmail)
        u == GetByUsername(db, username, env.getUsername)
        h == GenerateFromPassword(password, salt)
        user == NewUser(username, email, h.hash, role, now)
        c == CreateUser(db, user, env.create)
        token == GenerateToken(c.user.ID, c.user.Username, c.user.Email, c.user.Role, now)
    IN IF e.user # <<>> THEN AuthResult(db, <<>>, <<>>, ErrUserExists, <<"GetByEmail">>)
       ELSE IF u.user # <<>>
       THEN AuthResult(db, <<>>, <<>>, ErrUserExists, <<"GetByEmail", "GetByUsername">>)
       ELSE IF h.err # Nil
       THEN AuthResult(db, <<>>, <<>>, h.err, <<"GetByEmail", "GetByUsername">>)
       ELSE IF c.err # Nil
       THEN AuthResult(c.db, <<>>, <<>>, c.err, <<"GetByEmail", "GetByUsername", "Create">>)
       ELSE AuthResult(c.db, <<c.user>>, token, Nil,
                       <<"GetByEmail", "GetByUsername", "Create">>)

\* AuthUseCase.Login
Login(db, now, email, password, env) ==
    LET e == GetByEmail(db, email, env.getEmail)
    IN IF e.err # Nil
       THEN AuthResult(db, <<>>, <<>>, ErrInvalidCredentials, <<"GetByEmail">>)
       ELSE IF ~CompareHashAndPassword(e.user[1].PasswordHash[1], password)
       THEN AuthResult(db, <<>>, <<>>, ErrInvalidCredentials, <<"GetByEmail">>)
       ELSE AuthResult(db, e.user,
                       GenerateToken(e.user[1].ID, e.user[1].Username, e.user[1].Email,
                                     e.user[1].Role, now),
                       Nil, <<"GetByEmail">>)

(***************************************************************************)
(* Concurrent callers of MediaUseCase: every call of storage and of the    *)
(* repository is a step of its own, and so are the two halves of           *)
(* LocalStorage.Save, os.Create and file.Write, between which the file is  *)
(* open.  pr = [pc, op, fileName, data, url, id, live, err]: pc is the     *)
(* step the caller is about to take, live whether the file it holds open   *)
(* is still linked at its path.  conc = [proc, data, n]: the callers, the   *)
(* bytes each record's upload submitted, and the calls begun so far.       *)
(***************************************************************************)
\* two callers at a time
Procs == {1, 2}

NoProc == [pc |-> "idle", op |-> "none", fileName |-> <<>>, data |-> <<>>, url |-> <<>>,
           id |-> 0, live |-> FALSE, err |-> Nil]

NoConc == [proc |-> [p \in Procs |-> NoProc], data |-> <<>>, n |-> 0]

Returned(pr, err) == [NoProc EXCEPT !.pc = "returned", !.op = pr.op, !.err = err]

\* UploadFile up to the call of Save, for a valid file type
UploadBegin(now, fileName, data) ==
    [NoProc EXCEPT !.pc = "Save.Create", !.op = "UploadFile",
                   !.fileName = Stamp(now) \o <<"_">> \o fileName, !.data = data]

\* Save: os.Create(filePath)
SaveCreate(fs, pr, fault) ==
    LET c == OsCreate(fs, Join(basePath, pr.fileName), fault)
    IN IF c.err # Nil THEN [fs |-> c.fs, pr |-> Returned(pr, ErrUploadFailed)]
       ELSE [fs |-> c.fs, pr |-> [pr EXCEPT !.pc = "Save.Write", !.live = TRUE]]

\* file.Write(data) on the open file, from its start: the bytes written take
\* the place of the first bytes the file holds; nothing of it shows at the
\* path once the file has been removed
FileWrite(fs, p, data, written, live) ==
    LET new == IF written < 0 \/ written >= BLen(data) THEN data ELSE BTake(data, written)
        old == IF p \in DOMAIN fs.files THEN fs.files[p] ELSE <<>>
    IN [err |-> IF written < 0 \/ written >= BLen(data) THEN Nil ELSE ENOSPC,
        fs |-> IF live /\ p \in DOMAIN fs.files
               THEN [fs EXCEPT !.files = PutFile(@, p, BCat(new, BDrop(old, BLen(new))))]
               ELSE fs]

\* Save: file.Write(data) and the return of the locator
SaveWrite(fs, pr, written) ==
    LET w == FileWrite(fs, Join(basePath, pr.fileName), pr.data, written, pr.live)
    IN IF w.err # Nil THEN [fs |-> w.fs, pr |-> Returned(pr, ErrUploadFailed)]
       ELSE [fs |-> w.fs,
             pr |-> [pr EXCEPT !.pc = "Create", !.live = FALSE,
                               !.url = baseURL \o <<"/">> \o pr.fileName]]

\* UploadFile: NewMediaFile and fileRepo.Create
UploadCreate(db, pr, now, fault) ==
    LET file == NewMediaFile(<<"a", ".", "b">>, pr.url, "document", 42, BLen(pr.data), now)
        c == Create(db, file, fault)
    IN IF c.err # Nil THEN [db |-> c.db, pr |-> [pr EXCEPT !.pc = "Cleanup", !.err = c.err]]
       ELSE [db |-> c.db, pr |-> [Returned(pr, Nil) EXCEPT !.id = c.file.ID]]

\* UploadFile: the cleanup of the uploaded file, its error dropped
UploadCleanup(fs, pr, fault) ==
    LET d == Delete(fs, pr.url, fault)
    IN [fs |-> d.fs, pr |-> Returned(pr, pr.err)]

DeleteBegin(id) == [NoProc EXCEPT !.pc = "GetByID", !.op = "DeleteFile", !.id = id]

\* DeleteFile: fileRepo.GetByID
DeleteGetByID(db, pr, fault) ==
    LET g == GetByID(db, pr.id, fault)
    IN IF g.err # Nil THEN Returned(pr, ErrFileNotFound)
       ELSE [pr EXCEPT !.pc = "Delete", !.url = g.file[1].FileURL]

\* DeleteFile: storage.Delete
DeleteStorage(fs, pr, fault) ==
    LET d == Delete(fs, pr.url, fault)
    IN IF d.err # Nil THEN [fs |-> d.fs, pr |-> Returned(pr, d.err)]
       ELSE [fs |-> d.fs, pr |-> [pr EXCEPT !.pc = "RepoDelete"]]

\* DeleteFile: fileRepo.Delete
DeleteRecord(db, pr, fault) ==
    LET r == RepoDelete(db, pr.id, fault)
    IN [db |-> r.db, pr |-> Returned(pr, r.err)]

\* the callers whose open file a removal has unlinked
Unlinked(proc, fs, after) ==
    [q \in DOMAIN proc |->
        IF /\ proc[q].pc = "Save.Write"
           /\ Join(basePath, proc[q].fileName) \in DOMAIN fs.files \ DOMAIN after.files
        THEN [proc[q] EXCEPT !.live = FALSE]
        ELSE proc[q]]

(***************************************************************************)
(* The media service as a state machine: calls of the use case, one at a   *)
(* time, against the storage directory and the table, with the clock       *)
(* advancing and blobs disappearing out of band in between.  `last` is the *)
(* call that has just returned (its arguments, what the medium and the     *)
(* database did to it, its results) and `before` what storage and table    *)
(* held when it began; both are cleared when the caller takes the result.  *)
(***************************************************************************)
FileNames == { <<"a">>, <<"a", ".", "b">> }
FileTypes == {"document", "video"}
Uploaders == {42}
Datas == { << <<"x", 1>> >>, << <<"y", 2>> >> }

\* the wider inputs of the one-upload specification SpecWide
WideFileNames == { <<"a">>, <<"a", ".", "b">>, <<"/", ".", ".", "/", "a">>,
                   <<"/", ".", ".", "/", ".", ".", "/", "a">> }
WideFileTypes == {"image", "document", "resume", "video", "Image"}
WideUploaders == {0, 42}
WideDatas == { <<>>, << <<"x", 1>>, <<"y", 1>> >> }

\* the ids a caller may ask for: those given out so far and the next one
Ids == 1..nextId

\* what the medium and the database may do to one call: nothing, or
NoFault == [create |-> FALSE, written |-> -1, dbCreate |-> FALSE, remove |-> FALSE,
            dbGet |-> FALSE, dbDelete |-> FALSE]

\* refuse the file's creation, fail the write after k bytes (none, one, all
\* but one), fail the insert, fail the insert and the removal that follows it
UploadEnvs(data) ==
    { NoFault, [NoFault EXCEPT !.create = TRUE], [NoFault EXCEPT !.dbCreate = TRUE],
      [NoFault EXCEPT !.dbCreate = TRUE, !.remove = TRUE] }
    \cup { [NoFault EXCEPT !.written = k] : k \in {0, 1, BLen(data) - 1} \cap (0..(BLen(data) - 1)) }

\* fail the select, the removal of the blob or the removal of the row
AccessEnvs ==
    { NoFault, [NoFault EXCEPT !.dbGet = TRUE], [NoFault EXCEPT !.remove = TRUE],
      [NoFault EXCEPT !.dbDelete = TRUE] }

Fs == [files |-> files, dirs |-> dirs]

World == [fs |-> [files |-> files, dirs |-> dirs],
          db |-> [rows |-> records, nextId |-> nextId]]

NoCall == [op |-> "none", fileName |-> <<>>, fileType |-> "", uploadedBy |-> 0,
           data |-> <<>>, id |-> 0, now |-> 0, env |-> NoFault, err |-> Nil,
           file |-> <<>>, calls |-> <<>>, page |-> 0, limit |-> 0, list |-> <<>>,
           total |-> 0, param |-> <<>>, status |-> 0, lost |-> FALSE,
           username |-> <<>>, email |-> <<>>, password |-> <<>>, role |-> "",
           faults |-> NoAuthFault, user |-> <<>>, token |-> <<>>, store |-> NoUsers]

Init ==
    /\ files = NewLocalStorage.files
    /\ dirs = NewLocalStorage.dirs
    /\ records = NewRepository.rows
    /\ nextId = NewRepository.nextId
    /\ clock = 0
    /\ nUploads = 0
    /\ last = NoCall
    /\ before = NoWorld
    /\ sess = NoSession
    /\ gw = NoRequest
    /\ auth = NoUsers
    /\ conc = NoConc

Becomes(w) ==
    /\ files' = w.fs.files
    /\ dirs' = w.fs.dirs
    /\ records' = w.db.rows
    /\ nextId' = w.db.nextId

Upload(names, types, uploaders, datas) ==
    /\ last.op = "none"
    /\ \E fileName \in names, fileType \in types, uploadedBy \in uploaders,
          data \in datas :
         \E env \in UploadEnvs(data) :
           LET r == UploadFile(World, clock, fileName, fileType, uploadedBy, data, env)
           IN /\ Becomes(r.w)
              /\ last' = [NoCall EXCEPT !.op = "UploadFile", !.fileName = fileName,
                            !.fileType = fileType, !.uploadedBy = uploadedBy,
                            !.data = data, !.now = clock, !.env = env, !.err = r.err,
                            !.file = r.file, !.calls = r.calls]
    /\ before' = World
    /\ nUploads' = nUploads + 1
    /\ UNCHANGED <<clock, sess, gw, auth, conc>>

UploadFileCall ==
    /\ nUploads < MaxUploads
    /\ Upload(FileNames, FileTypes, Uploaders, Datas)

UploadFileWide ==
    /\ nUploads < MaxWideUploads
    /\ Upload(WideFileNames, WideFileTypes, WideUploaders, WideDatas)

GetFileCall ==
    /\ last.op = "none"
    /\ \E id \in Ids, env \in {NoFault, [NoFault EXCEPT !.dbGet = TRUE]} :
         LET r == GetFile(World, id, env)
         IN /\ Becomes(r.w)
            /\ last' = [NoCall EXCEPT !.op = "GetFile", !.id = id, !.env = env,
                          !.err = r.err, !.file = r.file, !.calls = r.calls]
    /\ before' = World
    /\ UNCHANGED <<clock, nUploads, sess, gw, auth, conc>>

DeleteFileCall ==
    /\ last.op = "none"
    /\ \E id \in Ids, env \in AccessEnvs :
         LET r == DeleteFile(World, id, env)
         IN /\ Becomes(r.w)
            /\ last' = [NoCall EXCEPT !.op = "DeleteFile", !.id = id, !.env = env,
                          !.err = r.err, !.file = r.file, !.calls = r.calls]
    /\ before' = World
    /\ UNCHANGED <<clock, nUploads, sess, gw, auth, conc>>

\* the caller takes the result of the call
Return ==
    /\ last.op # "none"
    /\ last' = NoCall
    /\ before' = NoWorld
    /\ UNCHANGED <<files, dirs, records, nextId, clock, nUploads, sess, gw,
                   auth, conc>>

\* a second passes
Tick ==
    /\ last.op = "none"
    /\ clock < MaxTime
    /\ clock' = clock + 1
    /\ UNCHANGED <<files, dirs, records, nextId, nUploads, last, before,
                   sess, gw, auth, conc>>

\* somebody else removes a file of the storage directory
RemoveBlob ==
    /\ last.op = "none"
    /\ \E p \in DOMAIN files : files' = DelFile(files, p)
    /\ UNCHANGED <<dirs, records, nextId, clock, nUploads, last, before,
                   sess, gw, auth, conc>>

Next == UploadFileCall \/ GetFileCall \/ DeleteFileCall \/ Return \/ Tick \/ RemoveBlob

Spec == Init /\ [][Next]_vars

NextWide == UploadFileWide \/ GetFileCall \/ DeleteFileCall \/ Return \/ Tick \/ RemoveBlob

SpecWide == Init /\ [][NextWide]_vars

(***************************************************************************)
(* Concurrent calls of UploadFile and DeleteFile, a step at a time.        *)
(***************************************************************************)
ConcDatas == { << <<"x", 1>> >>, << <<"y", 2>> >> }

ConcUpload ==
    /\ conc.n < MaxCalls
    /\ \E p \in Procs, data \in ConcDatas :
         /\ conc.proc[p].pc \in {"idle", "returned"}
         /\ conc' = [conc EXCEPT !.n = @ + 1,
                                 !.proc[p] = UploadBegin(clock, <<"a", ".", "b">>, data)]
    /\ UNCHANGED <<files, dirs, records, nextId, clock, nUploads, last, before, sess, gw,
                   auth>>

ConcDelete ==
    /\ conc.n < MaxCalls
    /\ \E p \in Procs, id \in DOMAIN records :
         /\ conc.proc[p].pc \in {"idle", "returned"}
         /\ conc' = [conc EXCEPT !.n = @ + 1, !.proc[p] = DeleteBegin(id)]
    /\ UNCHANGED <<files, dirs, records, nextId, clock, nUploads, last, before, sess, gw,
                   auth>>

\* a step of a call on storage
ConcStorageStep ==
    /\ \E p \in Procs, fault \in BOOLEAN :
         LET pr == conc.proc[p]
             r == CASE pr.pc = "Save.Create" -> SaveCreate(Fs, pr, fault)
                    [] pr.pc = "Save.Write" -> SaveWrite(Fs, pr, IF fault THEN 0 ELSE -1)
                    [] pr.pc = "Cleanup" -> UploadCleanup(Fs, pr, fault)
                    [] pr.pc = "Delete" -> DeleteStorage(Fs, pr, fault)
         IN /\ pr.pc \in {"Save.Create", "Save.Write", "Cleanup", "Delete"}
            /\ files' = r.fs.files
            /\ dirs' = r.fs.dirs
            /\ conc' = [conc EXCEPT !.proc = [Unlinked(@, Fs, r.fs) EXCEPT ![p] = r.pr]]
    /\ UNCHANGED <<records, nextId, clock, nUploads, last, before, sess, gw, auth>>

\* a step of a call on the repository
ConcRepositoryStep ==
    /\ \E p \in Procs, fault \in BOOLEAN :
         LET pr == conc.proc[p]
             db == [rows |-> records, nextId |-> nextId]
             r == CASE pr.pc = "Create" -> UploadCreate(db, pr, clock, fault)
                    [] pr.pc = "GetByID" -> [db |-> db, pr |-> DeleteGetByID(db, pr, fault)]
                    [] pr.pc = "RepoDelete" -> DeleteRecord(db, pr, fault)
         IN /\ pr.pc \in {"Create", "GetByID", "RepoDelete"}
            /\ records' = r.db.rows
            /\ nextId' = r.db.nextId
            /\ conc' = [conc EXCEPT
                          !.proc[p] = r.pr,
                          !.data = IF pr.pc = "Create" /\ r.pr.pc = "returned"
                                   THEN [i \in DOMAIN @ \cup {r.pr.id} |->
                                           IF i = r.pr.id THEN pr.data ELSE @[i]]
                                   ELSE @]
    /\ UNCHANGED <<files, dirs, clock, nUploads, last, before, sess, gw, auth>>

NextConc == ConcUpload \/ ConcDelete \/ ConcStorageStep \/ ConcRepositoryStep \/ Tick

SpecConc == Init /\ [][NextConc]_vars

(***************************************************************************)
(* The listings of the use case, over the records that uploads have left.  *)
(***************************************************************************)
Pages == {-1, 0, 1, 2}
Limits == {-1, 0, 1, 2, 100, 101}
ListTypes == {"", "document"}
ListUsers == {0, 42}

\* the uploads that fill the table: one name, one payload, two types, two users
ListUpload ==
    /\ nUploads < MaxUploads
    /\ Upload({ <<"a", ".", "b">> }, {"document", "image"}, ListUsers, { << <<"x", 1>> >> })

ListFilesCall ==
    /\ last.op = "none"
    /\ \E page \in Pages, limit \in Limits, fileType \in ListTypes,
          env \in {NoFault, [NoFault EXCEPT !.dbGet = TRUE]} :
         LET r == ListFiles(World, page, limit, fileType, env)
         IN /\ Becomes(r.w)
            /\ last' = [NoCall EXCEPT !.op = "ListFiles", !.page = page, !.limit = limit,
                          !.fileType = fileType, !.env = env, !.err = r.err,
                          !.list = r.files, !.total = r.total, !.calls = r.calls]
    /\ before' = World
    /\ UNCHANGED <<clock, nUploads, sess, gw, auth, conc>>

GetFilesByUserCall ==
    /\ last.op = "none"
    /\ \E page \in Pages, limit \in Limits, userID \in ListUsers,
          env \in {NoFault, [NoFault EXCEPT !.dbGet = TRUE]} :
         LET r == GetFilesByUser(World, userID, page, limit, env)
         IN /\ Becomes(r.w)
            /\ last' = [NoCall EXCEPT !.op = "GetFilesByUser", !.page = page,
                          !.limit = limit, !.uploadedBy = userID, !.env = env,
                          !.err = r.err, !.list = r.files, !.total = r.total,
                          !.calls = r.calls]
    /\ before' = World
    /\ UNCHANGED <<clock, nUploads, sess, gw, auth, conc>>

NextList == ListUpload \/ ListFilesCall \/ GetFilesByUserCall \/ Return \/ Tick

SpecList == Init /\ [][NextList]_vars

(***************************************************************************)
(* Every operation of the use case, over the records of the same uploads.  *)
(***************************************************************************)
NextAll ==
    ListUpload \/ GetFileCall \/ DeleteFileCall \/ ListFilesCall \/ GetFilesByUserCall
        \/ Return

SpecAll == Init /\ [][NextAll]_vars

(***************************************************************************)
(* Requests for one file through the gateway, over what uploads have left. *)
(***************************************************************************)
Params == {<<>>} \cup { <<id>> : id \in Ids }

HttpGetFile ==
    /\ last.op = "none"
    /\ \E param \in Params, env \in {NoFault, [NoFault EXCEPT !.dbGet = TRUE]},
          lost \in BOOLEAN :
         LET r == GwGetFile(World, param, env, lost)
         IN /\ Becomes(r.w)
            /\ last' = [NoCall EXCEPT !.op = "GET", !.param = param, !.env = env,
                          !.lost = lost, !.status = r.status, !.err = r.err,
                          !.file = r.file, !.calls = r.calls]
    /\ before' = World
    /\ UNCHANGED <<clock, nUploads, sess, gw, auth, conc>>

HttpDeleteFile ==
    /\ last.op = "none"
    /\ \E param \in Params, env \in AccessEnvs, lost \in BOOLEAN :
         LET r == GwDeleteFile(World, param, env, lost)
         IN /\ Becomes(r.w)
            /\ last' = [NoCall EXCEPT !.op = "DELETE", !.param = param, !.env = env,
                          !.lost = lost, !.status = r.status, !.err = r.err,
                          !.file = r.file, !.calls = r.calls]
    /\ before' = World
    /\ UNCHANGED <<clock, nUploads, sess, gw, auth, conc>>

NextApi == UploadFileCall \/ HttpGetFile \/ HttpDeleteFile \/ Return

SpecApi == Init /\ [][NextApi]_vars

(***************************************************************************)
(* Calls of AuthUseCase.Register and Login, one at a time.                 *)
(***************************************************************************)
Usernames == { <<"u">>, <<"v">> }
Emails == { <<"e">>, <<"f">> }
Roles == {"", "admin"}
Salts == {1, 2}

\* eight bytes, 72 bytes, and the same 72 bytes and one more
Passwords == { << <<"p", 8>> >>, << <<"p", BcryptMaxLen>> >>,
               << <<"p", BcryptMaxLen>>, <<"q", 1>> >> }

RegisterEnvs ==
    { NoAuthFault, [NoAuthFault EXCEPT !.getEmail = TRUE],
      [NoAuthFault EXCEPT !.getUsername = TRUE], [NoAuthFault EXCEPT !.create = TRUE] }

RegisterCall ==
    /\ last.op = "none"
    /\ auth.db.nextId <= MaxRegisters
    /\ \E username \in Usernames, email \in Emails, password \in Passwords,
          role \in Roles, salt \in Salts, env \in RegisterEnvs :
         LET r == Register(auth.db, clock, username, email, password, role, salt, env)
         IN /\ auth' = [db |-> r.db,
                        pw |-> IF r.err = Nil
                               THEN [i \in DOMAIN auth.pw \cup {r.user[1].ID} |->
                                       IF i = r.user[1].ID THEN password ELSE auth.pw[i]]
                               ELSE auth.pw]
            /\ last' = [NoCall EXCEPT !.op = "Register", !.username = username,
                          !.email = email, !.password = password, !.role = role,
                          !.faults = env, !.now = clock, !.err = r.err, !.user = r.user,
                          !.token = r.token, !.calls = r.calls, !.store = auth]
    /\ UNCHANGED <<files, dirs, records, nextId, clock, nUploads, before,
                   sess, gw, conc>>

LoginCall ==
    /\ last.op = "none"
    /\ \E email \in Emails, password \in Passwords,
          env \in {NoAuthFault, [NoAuthFault EXCEPT !.getEmail = TRUE]} :
         LET r == Login(auth.db, clock, email, password, env)
         IN /\ auth' = [auth EXCEPT !.db = r.db]
            /\ last' = [NoCall EXCEPT !.op = "Login", !.email = email,
                          !.password = password, !.faults = env, !.now = clock,
                          !.err = r.err, !.user = r.user, !.token = r.token,
                          !.calls = r.calls, !.store = auth]
    /\ UNCHANGED <<files, dirs, records, nextId, clock, nUploads, before,
                   sess, gw, conc>>

NextAuth == RegisterCall \/ LoginCall \/ Return

SpecAuth == Init /\ [][NextAuth]_vars

(***************************************************************************)
(* An upload session seen from the service: a client that sends whatever   *)
(* frames it likes.                                                        *)
(***************************************************************************)
Metas == { [file_name |-> <<"a", ".", "b">>, file_type |-> t, uploaded_by |-> 42] :
             t \in {"document", "video"} }

\* one byte, and half a payload of the greatest size: two halves are
\* accepted, and one byte more is not
Chunks == { << <<"x", 1>> >>, << <<"y", MaxFileSize \div 2>> >> }

SessOpen ==
    /\ sess.state # "open"
    /\ sess.n < MaxSessions
    /\ sess' = NewSession(sess, World)
    /\ UNCHANGED <<files, dirs, records, nextId, clock, nUploads, last,
                   before, gw, auth, conc>>

ClientMetadata ==
    /\ sess.state = "open"
    /\ Len(sess.log) < MaxFrames
    /\ \E m \in Metas : sess' = RecvMetadata(Logged(sess, "metadata", 0), m)
    /\ UNCHANGED <<files, dirs, records, nextId, clock, nUploads, last,
                   before, gw, auth, conc>>

ClientChunk ==
    /\ sess.state = "open"
    /\ Len(sess.log) < MaxFrames
    /\ \E c \in Chunks : sess' = RecvChunk(Logged(sess, "chunk", BLen(c)), c)
    /\ UNCHANGED <<files, dirs, records, nextId, clock, nUploads, last,
                   before, gw, auth, conc>>

ClientClose ==
    /\ sess.state = "open"
    /\ \E env \in UploadEnvs(sess.buf) :
         LET r == RecvEOF(Logged(sess, "eof", 0), World, clock, env)
         IN /\ Becomes(r.w)
            /\ sess' = r.ss
    /\ UNCHANGED <<clock, nUploads, last, before, gw, auth, conc>>

ClientAbort ==
    /\ sess.state = "open"
    /\ sess' = RecvAbort(sess)
    /\ UNCHANGED <<files, dirs, records, nextId, clock, nUploads, last,
                   before, gw, auth, conc>>

NextSession == SessOpen \/ ClientMetadata \/ ClientChunk \/ ClientClose \/ ClientAbort

SpecSession == Init /\ [][NextSession]_vars

(***************************************************************************)
(* Upload requests through the gateway: the handler's steps, each frame    *)
(* that Send accepts reaching the service, in order.                       *)
(***************************************************************************)
\* the file part's bytes: none, one, three, a buffer and one more, and the
\* two that make a body of MaxFileSize bytes and of one byte more
Contents == { <<>>, << <<"x", 1>> >>, << <<"x", 1>>, <<"y", 1>>, <<"z", 1>> >>,
              << <<"x", ChunkSize>>, <<"y", 1>> >>,
              << <<"z", MaxFileSize - 128>> >>, << <<"z", MaxFileSize - 127>> >> }

\* file: the file part, if any; extra: the bytes of the body around it
Requests == [file : {<<>>} \cup { <<c>> : c \in Contents },
             fileName : { <<"a", ".", "b">> },
             file_type : {"", "image"},
             user_id : { <<>>, <<42>> },
             extra : {128}]

GwHandle ==
    /\ gw.pc \in {"idle", "returned"}
    /\ gw.n < MaxRequests
    /\ \E req \in Requests :
         gw' = [GwBegin(gw, req) EXCEPT
                   !.began = [w |-> World, sess |-> sess, form |-> req.file_type]]
    /\ UNCHANGED <<files, dirs, records, nextId, clock, nUploads, last,
                   before, sess, auth, conc>>

GwOpenStream ==
    /\ gw.pc = "open"
    /\ \E ok \in BOOLEAN :
         /\ gw' = GwOpen(gw, ok)
         /\ sess' = IF ok THEN NewSession(sess, World) ELSE sess
    /\ UNCHANGED <<files, dirs, records, nextId, clock, nUploads, last,
                   before, auth, conc>>

GwMetadataFrame ==
    /\ gw.pc = "metadata"
    /\ \E ok \in BOOLEAN :
         /\ gw' = GwSendMetadata(gw, ok)
         /\ sess' = IF ok THEN RecvMetadata(Logged(sess, "metadata", 0), GwMetadata(gw))
                    ELSE Cancelled(gw', sess)
    /\ UNCHANGED <<files, dirs, records, nextId, clock, nUploads, last,
                   before, auth, conc>>

GwReadFile ==
    /\ gw.pc = "read"
    /\ gw.reads < MaxReads
    /\ \E out \in ReadOutcomes(gw.rest) : gw' = GwRead(gw, out)
    /\ sess' = Cancelled(gw', sess)
    /\ UNCHANGED <<files, dirs, records, nextId, clock, nUploads, last,
                   before, auth, conc>>

GwChunkFrame ==
    /\ gw.pc = "send"
    /\ \E ok \in BOOLEAN :
         /\ gw' = GwSendChunk(gw, ok)
         /\ sess' = IF ok THEN RecvChunk(Logged(sess, "chunk", BLen(gw.chunk)), gw.chunk)
                    ELSE Cancelled(gw', sess)
    /\ UNCHANGED <<files, dirs, records, nextId, clock, nUploads, last,
                   before, auth, conc>>

GwClose ==
    /\ gw.pc = "close"
    /\ gw' = GwCloseSend(gw)
    /\ \E env \in UploadEnvs(sess.buf) :
         LET r == RecvEOF(Logged(sess, "eof", 0), World, clock, env)
         IN /\ Becomes(r.w)
            /\ sess' = r.ss
    /\ UNCHANGED <<clock, nUploads, last, before, auth, conc>>

\* the service's answer, or the stream's own failure (the deadline, the
\* transport) in its place
GwResult ==
    /\ gw.pc = "recv"
    /\ \E lost \in BOOLEAN :
         gw' = GwRecv(gw, IF lost THEN ErrTransport ELSE sess.err)
    /\ sess' = Cancelled(gw', sess)
    /\ UNCHANGED <<files, dirs, records, nextId, clock, nUploads, last,
                   before, auth, conc>>

NextGateway ==
    GwHandle \/ GwOpenStream \/ GwMetadataFrame \/ GwReadFile \/ GwChunkFrame
        \/ GwClose \/ GwResult

SpecGateway == Init /\ [][NextGateway]_vars

(***************************************************************************)
(* Properties of the media lifecycle.                                      *)
(***************************************************************************)
\* the path LocalStorage resolves a locator to
BlobPath(fileURL) == Join(basePath, Base(fileURL))

Made(fn) == \E i \in 1..Len(last.calls) : last.calls[i].fn = fn

Failed(fn) == \E i \in 1..Len(last.calls) : last.calls[i].fn = fn /\ last.calls[i].err # Nil

\* C1 (P1, upload atomicity): when UploadFile has returned, whatever the type
\* check, Save and Create did, either a record exists whose FileURL resolves
\* through Get to exactly the submitted bytes, or the call has added no record
\* and no new blob exists in storage.  (The compensating delete being best
\* effort, the calls whose cleanup the medium refused are left out.)
C1_UploadAtomic ==
    (last.op = "UploadFile" /\ ~Failed("Delete")) =>
        \/ \E id \in DOMAIN records :
             Get(Fs, records[id].file_url, FALSE) = [data |-> last.data, err |-> Nil]
        \/ /\ records = before.db.rows
           /\ DOMAIN files \subseteq DOMAIN before.fs.files

\* C2 (compensating delete): whenever Save succeeds and Create then fails
\* inside UploadFile, Delete is invoked next, and last, on exactly the locator
\* Save returned; UploadFile returns the Create error and no MediaFile, and
\* that also when the Delete itself fails.
C2_CompensatingDelete ==
    last.op = "UploadFile" =>
        \A i \in 1..Len(last.calls) :
            (last.calls[i].fn = "Create" /\ last.calls[i].err # Nil) =>
                /\ i = 2 /\ last.calls[1].fn = "Save" /\ last.calls[1].err = Nil
                /\ Len(last.calls) = 3
                /\ last.calls[3].fn = "Delete"
                /\ last.calls[3].loc = last.calls[1].out
                /\ last.err = last.calls[i].err
                /\ last.file = <<>>

\* an UploadFile whose insert failed and whose cleanup failed too
C2_Witness ==
    /\ last.op = "UploadFile"
    /\ Failed("Create")
    /\ Failed("Delete")

\* C3: when Save fails inside UploadFile, UploadFile returns ErrUploadFailed
\* and no file, Create is not invoked, and the records are what they were.
C3_SaveFailure ==
    (last.op = "UploadFile" /\ Failed("Save")) =>
        /\ last.err = ErrUploadFailed
        /\ last.file = <<>>
        /\ ~Made("Create")
        /\ records = before.db.rows

\* an UploadFile whose write to the created file failed
C3_Witness ==
    /\ last.op = "UploadFile"
    /\ Len(last.calls) = 1
    /\ last.calls[1].err = Wrap("failed to write file", ENOSPC)

\* C4 (P5, type validation): a fileType other than image, document and resume
\* makes UploadFile return ErrInvalidFileType without a call on storage or
\* repository, which are left as they were; each of the three is accepted.
C4_TypeValidation ==
    last.op = "UploadFile" =>
        IF last.fileType \notin {"image", "document", "resume"}
        THEN /\ last.err = ErrInvalidFileType
             /\ last.file = <<>>
             /\ last.calls = <<>>
             /\ World = before
        ELSE /\ last.err # ErrInvalidFileType
             /\ Made("Save")

\* an UploadFile of a video has been rejected
C4_Witness ==
    /\ last.op = "UploadFile"
    /\ last.fileType = "video"
    /\ last.err = ErrInvalidFileType

\* C5 (P6, delete fail-closed): if storage Delete returns an error during
\* DeleteFile(id), the repository's Delete is not invoked, DeleteFile returns
\* that error, and the record with that id is still there, unchanged.
C5_DeleteFailClosed ==
    last.op = "DeleteFile" =>
        \A i \in 1..Len(last.calls) :
            (last.calls[i].fn = "Delete" /\ last.calls[i].err # Nil) =>
                /\ ~Made("RepoDelete")
                /\ last.err = last.calls[i].err
                /\ last.id \in DOMAIN records
                /\ records[last.id] = before.db.rows[last.id]

\* a DeleteFile whose blob removal was refused
C5_Witness ==
    /\ last.op = "DeleteFile"
    /\ Failed("Delete")

\* DeleteFile(last.id) found its record, and the record's blob was not there
BlobWasAbsent ==
    /\ last.op = "DeleteFile"
    /\ last.id \in DOMAIN before.db.rows
    /\ ~last.env.dbGet
    /\ BlobPath(before.db.rows[last.id].file_url) \notin DOMAIN before.fs.files

\* C6 (idempotent blob delete): unless the medium refuses the removal, storage
\* Delete on a locator whose blob is absent returns success, so that
\* DeleteFile for a record whose blob was removed out of band succeeds and
\* removes the record (unless the database refuses); and for every record's
\* locator a second Delete succeeds like the first and changes nothing more.
C6_IdempotentDelete ==
    /\ (BlobWasAbsent /\ ~last.env.remove) =>
          /\ Made("Delete") /\ ~Failed("Delete")
          /\ ~last.env.dbDelete => (last.err = Nil /\ last.id \notin DOMAIN records)
    /\ \A id \in DOMAIN records :
          LET once == Delete(Fs, records[id].file_url, FALSE)
              twice == Delete(once.fs, records[id].file_url, FALSE)
          IN once.err = Nil /\ twice.err = Nil /\ twice.fs = once.fs

\* a DeleteFile that succeeded on a record whose blob was already gone
C6_Witness ==
    /\ BlobWasAbsent
    /\ last.err = Nil
    /\ last.id \notin DOMAIN records

(***************************************************************************)
(* Properties of the upload session and of the gateway's handler.          *)
(***************************************************************************)
ChunkBeforeMetadata ==
    \E i \in 1..Len(sess.log) :
        /\ sess.log[i].kind = "chunk"
        /\ \A j \in 1..(i - 1) : sess.log[j].kind # "metadata"

SecondMetadata ==
    \E i, j \in 1..Len(sess.log) :
        i < j /\ sess.log[i].kind = "metadata" /\ sess.log[j].kind = "metadata"

RECURSIVE ChunkBytes(_)
ChunkBytes(log) ==
    IF log = <<>> THEN 0
    ELSE (IF log[1].kind = "chunk" THEN log[1].size ELSE 0) + ChunkBytes(Tail(log))

\* C7 (P3, frame grammar): a session that has received a chunk frame before
\* any metadata frame, or a second metadata frame, is failed by the receiving
\* side as a violation of the protocol; nothing was handed to the lifecycle,
\* and storage and table are what they were when the session opened.
C7_FrameGrammar ==
    (ChunkBeforeMetadata \/ SecondMetadata) =>
        /\ sess.state = "failed"
        /\ sess.err = ErrProtocol
        /\ sess.handed = <<>>
        /\ sess.resp = <<>>
        /\ World = sess.opened

C7_Witness ==
    /\ SecondMetadata
    /\ ~ChunkBeforeMetadata
    /\ sess.state = "failed"
    /\ sess.log[Len(sess.log)].kind = "metadata"

\* C8 (P4, size ceiling): a session whose chunk frames add up to more than
\* MaxFileSize bytes is failed, nothing of it was handed to the lifecycle, and
\* storage and table are what they were when it opened; and the receiver
\* fails a session for its size only then, so that a payload of exactly
\* MaxFileSize bytes is accepted and one of MaxFileSize + 1 bytes is not.
C8_SizeCeiling ==
    /\ ChunkBytes(sess.log) > MaxFileSize =>
          /\ sess.state = "failed"
          /\ sess.handed = <<>>
          /\ sess.resp = <<>>
          /\ World = sess.opened
    /\ sess.err = ErrTooLarge => ChunkBytes(sess.log) > MaxFileSize
    /\ BLen(sess.buf) <= MaxFileSize

C8_Witness ==
    /\ ChunkBytes(sess.log) = MaxFileSize + 1
    /\ sess.gotMeta
    /\ sess.err = ErrTooLarge
    /\ BLen(sess.buf) = MaxFileSize

C10_OneResponse ==
    /\ Len(gw.responses) <= 1
    /\ gw.pc = "returned" <=> Len(gw.responses) = 1
    /\ gw.pc = "idle" => gw.n = 0

C10_Witness ==
    /\ gw.pc = "returned"
    /\ gw.responses = << [status |-> 500, body |-> "Failed to send chunk"] >>
    /\ gw.sent # <<>>

FailureBodies == {"Failed to start upload", "Failed to send metadata", "Failed to read file",
                  "Failed to send chunk", "Upload failed"}

\* C11 (non-2xx means nothing stored): when the handler has answered with a
\* status outside 200..299, whatever made the exchange fail, the table holds
\* the records and storage the blobs they held when the request arrived.
C11_NothingStored ==
    (gw.pc = "returned" /\ gw.responses[1].status \notin 200..299) =>
        /\ records = gw.began.w.db.rows
        /\ files = gw.began.w.fs.files

\* C12 (upload status mapping): the handler answers 201 only when the session
\* ended with the service's successful response; 400 exactly when the file
\* part could not be read, and then no session was opened and no frame sent;
\* and 500 exactly when opening the session, sending a frame, reading the file
\* or receiving the response failed.
C12_StatusMapping ==
    gw.pc = "returned" =>
        LET r == gw.responses[1]
        IN /\ r.status \in {201, 400, 500}
           /\ r.status = 201 <=> r.body = "file"
           /\ r.status = 201 =>
                 /\ gw.closed
                 /\ sess.state = "done"
                 /\ sess.resp # <<>> /\ sess.resp[1].err = Nil /\ sess.resp[1].file # <<>>
           /\ r.status = 400 <=> r.body = "File is required"
           /\ r.status = 400 => (sess = gw.began.sess /\ gw.sent = <<>> /\ ~gw.closed)
           /\ r.status = 500 <=> r.body \in FailureBodies
           /\ r.body = "Upload failed" => gw.closed
           /\ r.body \in FailureBodies \ {"Upload failed"} => ~gw.closed

C12_Witness ==
    /\ gw.pc = "returned"
    /\ gw.responses = << [status |-> 201, body |-> "file"] >>
    /\ gw.sent = << <<"x", ChunkSize>>, <<"y", 1>> >>
    /\ sess.resp[1].err = Nil

\* C13 (record content and read-back): a successful UploadFile returns a
\* MediaFile with an id of the table, the name, type and uploader it was given,
\* FileSize the length of the data and FileURL the locator Save returned; and
\* GetFile on that id then returns a record with the same field values.
C13_ReadBack ==
    (last.op = "UploadFile" /\ last.err = Nil) =>
        LET f == last.file[1]
            g == GetFile(World, f.ID, NoFault)
        IN /\ f.ID \in DOMAIN records
           /\ f.FileName = last.fileName
           /\ f.FileType = last.fileType
           /\ f.UploadedBy = last.uploadedBy
           /\ f.FileSize = BLen(last.data)
           /\ f.FileURL = last.calls[1].out
           /\ g.err = Nil
           /\ g.file = <<f>>

\* C14 (pagination normalization): ListFiles and GetFilesByUser call the
\* repository once, with page 1 for a page below 1 and the page itself
\* otherwise, and with limit 10 for a limit below 1 or above 100 and the limit
\* itself otherwise; so the page passed is at least 1 and the limit in 1..100.
C14_Pagination ==
    last.op \in {"ListFiles", "GetFilesByUser"} =>
        /\ Len(last.calls) = 1
        /\ last.calls[1].fn = (IF last.op = "ListFiles" THEN "List" ELSE "GetByUserID")
        /\ last.calls[1].page = (IF last.page < 1 THEN 1 ELSE last.page)
        /\ last.calls[1].limit = (IF last.limit \in 1..100 THEN last.limit ELSE 10)
        /\ last.calls[1].page >= 1
        /\ last.calls[1].limit \in 1..100

C14_Witness ==
    /\ last.op = "ListFiles"
    /\ last.page = 0
    /\ last.limit = 0
    /\ last.calls[1].page = 1
    /\ last.calls[1].limit = 10
    /\ last.total > 0

\* C15 (Save/Get round trip): when Save has succeeded, for whatever name and
\* bytes, and nothing has touched the blob since, Get on the locator Save
\* returned yields exactly those bytes, and Delete on that locator removes the
\* file Save wrote and nothing else.
C15_RoundTrip ==
    (last.op = "UploadFile" /\ Made("Save") /\ ~Failed("Save") /\ ~Made("Delete")) =>
        LET url == last.calls[1].out
            written == Join(basePath, last.calls[1].loc)
        IN /\ Get(Fs, url, FALSE) = [data |-> last.data, err |-> Nil]
           /\ written \in DOMAIN files
           /\ Delete(Fs, url, FALSE) = [fs |-> [Fs EXCEPT !.files = DelFile(files, written)],
                                        err |-> Nil]

\* C16 (gateway size ceiling): a request whose body is longer than MaxFileSize
\* is answered 400 at once: the handler opens no session and sends no frame.
\* A body of exactly MaxFileSize bytes is let through.
C16_GatewayCeiling ==
    /\ gw.bodyLen > MaxFileSize =>
          /\ gw.pc = "returned"
          /\ gw.responses = << [status |-> 400, body |-> "File is required"] >>
          /\ sess = gw.began.sess
          /\ gw.sent = <<>> /\ ~gw.closed
    /\ (gw.n > 0 /\ gw.bodyLen <= MaxFileSize /\ gw.content # <<>>) =>
          (gw.responses = <<>> \/ gw.responses[1].status # 400)

C16_Witness ==
    /\ gw.bodyLen = MaxFileSize + 1
    /\ gw.pc = "returned"
    /\ Len(gw.responses) = 1

\* C17 (not-found is a client error): a GET or a DELETE of /api/media/:id for
\* an id that has no record, when nothing else goes wrong, is answered with a
\* status of the 4xx class.
C17_NotFoundIsClientError ==
    (/\ last.op \in {"GET", "DELETE"}
     /\ last.param # <<>>
     /\ last.param[1] \notin DOMAIN before.db.rows
     /\ last.env = NoFault
     /\ ~last.lost) =>
        last.status \in 400..499

\* errors.Is(outer, inner): outer is inner, or wraps it
IsKind(outer, inner) ==
    /\ Len(inner) <= Len(outer)
    /\ SubSeq(outer, Len(outer) - Len(inner) + 1, Len(outer)) = inner

\* C18 (error kind is preserved): whatever error Save, Delete, Create, GetByID
\* or the repository's Delete returned to UploadFile, GetFile or DeleteFile,
\* the use case returns an error of that kind; only 'no rows' becomes
\* ErrFileNotFound.  (The outcome of the compensating Delete of UploadFile is
\* dropped by design and is left out.)
C18_ErrorKind ==
    last.op \in {"UploadFile", "GetFile", "DeleteFile"} =>
        \A i \in 1..Len(last.calls) :
            (/\ last.calls[i].err # Nil
             /\ ~(last.op = "UploadFile" /\ last.calls[i].fn = "Delete")) =>
                IF last.calls[i].err = ErrNoRows THEN last.err = ErrFileNotFound
                ELSE IsKind(last.err, last.calls[i].err)

(***************************************************************************)
(* Register and Login.  last.store is the user store the call started on.  *)
(***************************************************************************)
\* no stored user has the email or the username
Fresh(store, username, email) ==
    \A i \in DOMAIN store.db.rows :
        store.db.rows[i].email # email /\ store.db.rows[i].username # username

StoreUnchanged == auth.db.rows = last.store.db.rows

Refused == last.err # Nil /\ last.user = <<>> /\ last.token = <<>> /\ StoreUnchanged

\* exactly one user was added, it has the email and the username of the
\* call, and it is the user returned, with a token
Registered ==
    /\ last.err = Nil
    /\ last.token # <<>>
    /\ Len(last.user) = 1
    /\ LET id == last.user[1].ID
       IN /\ id \notin DOMAIN last.store.db.rows
          /\ DOMAIN auth.db.rows = DOMAIN last.store.db.rows \cup {id}
          /\ \A i \in DOMAIN last.store.db.rows : auth.db.rows[i] = last.store.db.rows[i]
          /\ auth.db.rows[id].email = last.email
          /\ auth.db.rows[id].username = last.username
          /\ last.user[1] = ScannedUser(auth.db, id)

\* C19, as stated: a Register whose email or username belongs to a stored
\* user returns an error, no user and an empty token and leaves the store
\* unchanged; a Register with a fresh email and username stores exactly one
\* new user with that email and returns it with a non-empty token.  (Read
\* for calls during which the repository does not fail.)
C19_AsStated ==
    (last.op = "Register" /\ last.faults = NoAuthFault) =>
        IF Fresh(last.store, last.username, last.email) THEN Registered ELSE Refused

\* C19, amended: a Register with a fresh email and username, a password of
\* at most 72 bytes and an insert that does not fail stores exactly one new
\* user with that email and returns it with a non-empty token; every other
\* Register (a taken email or username, whether or not the lookups fail; a
\* longer password; a failing insert) returns an error, no user and an empty
\* token and leaves the stored users unchanged.
C19_RegisterUniqueness ==
    last.op = "Register" =>
        IF /\ Fresh(last.store, last.username, last.email)
           /\ BLen(last.password) <= BcryptMaxLen
           /\ ~last.faults.create
        THEN Registered
        ELSE Refused

\* a taken email slips past a failing lookup and the table refuses it
C19_Witness ==
    /\ last.op = "Register"
    /\ last.faults.getEmail
    /\ \E i \in DOMAIN last.store.db.rows : last.store.db.rows[i].email = last.email
    /\ last.calls = <<"GetByEmail", "GetByUsername", "Create">>
    /\ Refused

\* C20: Login returns a user and a non-empty token exactly when a user with
\* the given email is stored and the given password is the one it was
\* registered with (and the lookup does not fail); otherwise it returns an
\* error, no user and an empty token; Login never changes the user store.
C20_Login ==
    last.op = "Login" =>
        LET ids == { i \in DOMAIN auth.db.rows : auth.db.rows[i].email = last.email }
            match == \E i \in ids : auth.pw[i] = last.password
        IN /\ StoreUnchanged
           /\ last.err = Nil => (match /\ last.token # <<>>
                                   /\ \E i \in ids : last.user = <<ScannedUser(auth.db, i)>>)
           /\ (match /\ last.faults = NoAuthFault) => last.err = Nil
           /\ last.err # Nil => (last.user = <<>> /\ last.token = <<>>)

(***************************************************************************)
(* The gateway's frames, the order of the steps and the frame of the       *)
(* operations.                                                             *)
(***************************************************************************)
\* the request the gateway is handling, or has handled last, opened a session
SessionOfRequest == gw.n > 0 /\ sess # gw.began.sess

\* C21 (gateway frame order): in a session the gateway opened, the first
\* frame is a metadata frame and the only one, every later frame is a chunk
\* frame, the end of the stream is signalled at most once and after every
\* chunk frame; and the file_type of the metadata frame is the form field
\* when that is not empty and "document" otherwise.
C21_FrameOrder ==
    SessionOfRequest =>
        LET log == sess.log
        IN /\ log # <<>> => log[1].kind = "metadata"
           /\ \A i \in 2..Len(log) : log[i].kind \in {"chunk", "eof"}
           /\ \A i \in 1..Len(log) : log[i].kind = "eof" => i = Len(log)
           /\ gw.closed <=> (log # <<>> /\ log[Len(log)].kind = "eof")
           /\ ChunkBytes(log) = BLen(gw.sent)
           /\ log # <<>> =>
                 /\ sess.gotMeta
                 /\ sess.meta.file_name = gw.fileName
                 /\ sess.meta.file_type =
                       (IF gw.began.form = "" THEN "document" ELSE gw.began.form)

C21_Witness ==
    /\ SessionOfRequest
    /\ gw.began.form = ""
    /\ Len(sess.log) = 4
    /\ sess.log[2].kind = "chunk" /\ sess.log[3].kind = "chunk"
    /\ sess.log[4].kind = "eof"
    /\ sess.meta.file_type = "document"

\* C22 (storage write only after full reassembly): the lifecycle has run for
\* a session only when the receiver has seen the end of the stream, which the
\* gateway signals only after reading the file part to its end and before
\* writing any response; a session aborted by a transport error, or by the
\* gateway returning early after a failed read or send, has handed nothing to
\* the lifecycle (no Save, no Create), and storage and table are what they
\* were when it opened.
C22_WriteAfterReassembly ==
    SessionOfRequest =>
        /\ sess.handed # <<>> =>
              /\ sess.log # <<>> /\ sess.log[Len(sess.log)].kind = "eof"
              /\ gw.closed
              /\ gw.rest = <<>>
              /\ sess.state = "done"
        /\ sess.handed = <<>> => (sess.resp = <<>> /\ World = sess.opened)
        /\ sess.state = "failed" => sess.handed = <<>>
        /\ (gw.pc = "returned" /\ ~gw.closed) =>
              /\ sess.state = "failed"
              /\ sess.err = ErrTransport
        /\ ~gw.closed => gw.pc # "recv"

C22_Witness ==
    /\ SessionOfRequest
    /\ gw.pc = "returned"
    /\ gw.responses[1].body = "Failed to read file"
    /\ BLen(sess.buf) = ChunkSize
    /\ sess.state = "failed"
    /\ sess.handed = <<>>
    /\ World = sess.opened

\* C23 (record/blob consistency under interleaving): in every state that
\* interleaved UploadFile and DeleteFile calls reach, every record's FileURL
\* resolves to a stored blob that holds the bytes its upload submitted; and
\* once every call has returned, every stored blob is referenced by a record.
C23_Consistency ==
    /\ \A id \in DOMAIN records :
          Get(Fs, records[id].file_url, FALSE) = [data |-> conc.data[id], err |-> Nil]
    /\ (\A p \in Procs : conc.proc[p].pc \in {"idle", "returned"}) =>
          \A path \in DOMAIN files :
             \E id \in DOMAIN records : BlobPath(records[id].file_url) = path

\* C24 (storage-unique names): two successful UploadFile calls are given
\* distinct generated names, so that no two records hold the same FileURL,
\* and the Save of a successful upload writes to a path where no blob of an
\* earlier upload lies.
C24_UniqueNames ==
    /\ \A i, j \in DOMAIN records : i # j => records[i].file_url # records[j].file_url
    /\ (last.op = "UploadFile" /\ last.err = Nil) =>
          Join(basePath, last.calls[1].loc) \notin DOMAIN before.fs.files

\* C25 (confinement to the storage root): whatever file name UploadFile is
\* given, every file that storage holds lies inside the root directory, and
\* every path that a storage Delete of the call resolves its locator to lies
\* inside it as well.
C25_Confinement ==
    /\ \A p \in DOMAIN files : IsUnder(p, Clean(basePath))
    /\ \A i \in 1..Len(last.calls) :
          last.calls[i].fn = "Delete" =>
              IsUnder(BlobPath(last.calls[i].loc), Clean(basePath))

\* the place of the first call of fn among the calls of the last operation,
\* 0 when there is none
CallAt(fn) ==
    IF Made(fn) THEN CHOOSE i \in 1..Len(last.calls) :
                        /\ last.calls[i].fn = fn
                        /\ \A j \in 1..(i - 1) : last.calls[j].fn # fn
    ELSE 0

\* C26 (order of DeleteFile): DeleteFile on an id with no record returns
\* FileNotFound and calls neither storage Delete nor repository Delete, and
\* nothing changes; on an existing record, repository Delete is called only
\* after storage Delete has returned without error, and is called then.
C26_DeleteOrder ==
    last.op = "DeleteFile" =>
        /\ last.id \notin DOMAIN before.db.rows =>
              /\ last.err = ErrFileNotFound
              /\ ~Made("Delete") /\ ~Made("RepoDelete")
              /\ World = before
        /\ Made("RepoDelete") =>
              /\ Made("Delete")
              /\ CallAt("Delete") < CallAt("RepoDelete")
              /\ last.calls[CallAt("Delete")].err = Nil
              /\ last.calls[CallAt("Delete")].loc = before.db.rows[last.id].file_url
        /\ (Made("Delete") /\ last.calls[CallAt("Delete")].err = Nil) => Made("RepoDelete")
        /\ Failed("Delete") => (records = before.db.rows /\ last.err # Nil)

C26_Witness ==
    /\ last.op = "DeleteFile"
    /\ last.id \in DOMAIN before.db.rows
    /\ Made("RepoDelete")
    /\ last.err = Nil
    /\ last.id \notin DOMAIN records

\* the number of calls of fn among calls
RECURSIVE Count(_, _)
Count(calls, fn) ==
    IF calls = <<>> THEN 0
    ELSE (IF calls[1].fn = fn THEN 1 ELSE 0) + Count(Tail(calls), fn)

\* the number of frames of a kind in a session's log
RECURSIVE Frames(_, _)
Frames(log, kind) ==
    IF log = <<>> THEN 0
    ELSE (IF log[1].kind = kind THEN 1 ELSE 0) + Frames(Tail(log), kind)

\* C27 (no retries): within an upload attempt the gateway opens at most one
\* session and sends the metadata frame, every byte of the file and the end
\* of the stream at most once; the UploadFile call of the session calls Save,
\* Create and the compensating Delete at most once each; and when a step has
\* failed the attempt ends with an error: no call follows a failed Save, only
\* the Delete follows a failed Create, and the handler answers 201 only when
\* no step failed.
C27_NoRetries ==
    gw.n > 0 =>
        /\ sess.n - gw.began.sess.n \in {0, 1}
        /\ SessionOfRequest =>
              /\ Frames(sess.log, "metadata") <= 1
              /\ Frames(sess.log, "eof") <= 1
              /\ gw.sent = BTake(gw.content, BLen(gw.sent))
              /\ Count(sess.calls, "Save") <= 1
              /\ Count(sess.calls, "Create") <= 1
              /\ Count(sess.calls, "Delete") <= 1
              /\ Len(sess.calls) <= 3
              /\ \A i \in 1..Len(sess.calls) :
                    sess.calls[i].err # Nil =>
                        /\ sess.resp[1].err # Nil
                        /\ sess.calls[i].fn = "Save" => i = Len(sess.calls)
                        /\ sess.calls[i].fn = "Create" =>
                              /\ Len(sess.calls) = i + 1
                              /\ sess.calls[i + 1].fn = "Delete"
              /\ (gw.pc = "returned" /\ gw.responses[1].status = 201) =>
                    /\ sess.err = Nil
                    /\ \A i \in 1..Len(sess.calls) : sess.calls[i].err = Nil

C27_Witness ==
    /\ SessionOfRequest
    /\ gw.pc = "returned"
    /\ gw.responses[1].status = 500
    /\ Len(sess.calls) = 3
    /\ sess.calls[2].fn = "Create" /\ sess.calls[2].err # Nil
    /\ sess.calls[3].fn = "Delete"
    /\ BLen(gw.sent) > ChunkSize

\* C28 (a failed Save leaves storage unchanged): when the Save of an
\* UploadFile call has returned an error, whether os.Create or the write
\* failed, storage holds the files it held before the call, each with the
\* content it had: no new file at the target path, empty or partial, and no
\* change to a file that was there.
C28_FailedSaveUnchanged ==
    (last.op = "UploadFile" /\ Failed("Save")) => files = before.fs.files

\* the record of the last call's id was there before the call, its blob not
BlobGone ==
    /\ last.id \in DOMAIN before.db.rows
    /\ BlobPath(before.db.rows[last.id].file_url) \notin DOMAIN before.fs.files

\* C29 (delete retry converges): when DeleteFile(id) has failed in repository
\* Delete, after storage Delete succeeded, the record is still there and its
\* blob is not; a DeleteFile(id) on a record whose blob is gone, in which
\* repository Delete succeeds, returns success and removes the record, and
\* it gets that far unless the select or the removal is refused; and after
\* every successful DeleteFile(id) neither the record nor its blob exists.
C29_DeleteRetry ==
    last.op = "DeleteFile" =>
        /\ Failed("RepoDelete") =>
              /\ last.err # Nil
              /\ last.id \in DOMAIN records
              /\ records[last.id] = before.db.rows[last.id]
              /\ BlobPath(records[last.id].file_url) \notin DOMAIN files
        /\ (BlobGone /\ Made("RepoDelete") /\ ~Failed("RepoDelete")) =>
              (last.err = Nil /\ last.id \notin DOMAIN records)
        /\ (BlobGone /\ ~last.env.dbGet /\ ~last.env.remove) => Made("RepoDelete")
        /\ last.err = Nil =>
              /\ last.id \in DOMAIN before.db.rows
              /\ last.id \notin DOMAIN records
              /\ BlobPath(before.db.rows[last.id].file_url) \notin DOMAIN files

\* the retry succeeds: the record is removed, the blob was gone already
C29_Witness ==
    /\ last.op = "DeleteFile"
    /\ BlobGone
    /\ last.err = Nil
    /\ last.id \notin DOMAIN records
    /\ files = before.fs.files

\* C30 (records are immutable, operations are local): no operation of the
\* use case changes a field of a record that was there before it; UploadFile,
\* whether it succeeds or fails, leaves every earlier record in place and
\* adds at most one; DeleteFile(id) removes at most the record of that id and
\* adds none; GetFile, ListFiles and GetFilesByUser change neither the table
\* nor storage.
C30_Frame ==
    last.op # "none" =>
        LET was == before.db.rows
        IN /\ \A id \in DOMAIN was \cap DOMAIN records : records[id] = was[id]
           /\ last.op = "UploadFile" =>
                 /\ DOMAIN was \subseteq DOMAIN records
                 /\ Cardinality(DOMAIN records \ DOMAIN was) <= 1
                 /\ last.err # Nil => records = was
           /\ last.op = "DeleteFile" =>
                 /\ DOMAIN records \subseteq DOMAIN was
                 /\ DOMAIN was \ DOMAIN records \subseteq {last.id}
           /\ last.op \in {"GetFile", "ListFiles", "GetFilesByUser"} => World = before

\* a DeleteFile that removed one of two records and left the other as it was
C30_Witness ==
    /\ last.op = "DeleteFile"
    /\ last.err = Nil
    /\ Cardinality(DOMAIN before.db.rows) = 2
    /\ Cardinality(DOMAIN records) = 1
    /\ \A id \in DOMAIN records : records[id] = before.db.rows[id]

=============================================================================
